---- MODULE Spec2Model ----
(***************************************************************************)
(* ChainCrawlr (vebbaybi/Chains): the trading decision-and-risk engine.    *)
(*                                                                         *)
(*   utils/caching.py          JSONFileCache    (file cache with expiry)   *)
(*   core/anti_rug.py          AntiRugChecker   (token safety validator)   *)
(*   core/sniper.py            Sniper           (entry orchestrator)       *)
(*   core/portfolio_manager.py PortfolioManager (position ledger)          *)
(*                                                                         *)
(* Modelling decisions                                                     *)
(*  - Collaborators (web3 / Solana RPC, the DEX clients, the explorer and  *)
(*    honeypot APIs, ChainHelpers' fee and formatting utilities, the       *)
(*    logger) are the environment: a call into one returns a value the     *)
(*    action draws from a small set, or raises.                            *)
(*  - Threads are those main.py starts; a method is split into steps where *)
(*    another thread can observe or change the state it shares.            *)
(*  - Prices and amounts are exact rationals <<n, d>> in lowest terms; the *)
(*    rounding of Decimal and float is not modelled.                       *)
(*  - time.time() is Instants[clock], in seconds.                          *)
(*  - ChainHelpers.shorten_address is modelled, not assumed: the helpers   *)
(*    of Sniper and PortfolioManager are built for 'ethereum', so a log    *)
(*    line built for an address that is not an EVM address raises.         *)
(*  - PortfolioManager.lock is a threading.Lock: a thread that holds it    *)
(*    and reaches another `with self.lock` stays there, holding it.        *)
(*  - portfolio_data.json is an input of the run; the process may be       *)
(*    started again over the same file and cache directory.                *)
(*  - Each component has its own specification over the shared variables;  *)
(*    the components it does not exercise stay as constructed.             *)
(***************************************************************************)
EXTENDS Integers, Sequences, FiniteSets, TLC

VARIABLES
  clock,        \* index into Instants: time.time() == Instants[clock]
  files,        \* the cache directory: key -> file (one cache_dir shared by all)
  lastGet,      \* JSONFileCache spec: the last get() call and what it returned
  purged,       \* JSONFileCache spec: keys a get() found expired, not set since
  written,      \* JSONFileCache spec: key -> the value last passed to set()
  settings,     \* settings['trading']['anti_rug']
  ar,           \* thread -> its AntiRugChecker.run_all_checks call
  pending_txs,  \* Sniper.pending_txs
  blacklist,    \* Sniper.blacklist
  sn,           \* thread -> its Sniper.execute call
  positions,    \* PortfolioManager.positions (the values of the dict)
  history,      \* PortfolioManager.history
  lock,         \* PortfolioManager.lock: its holder, or Free
  pm,           \* thread -> its PortfolioManager call
  portfolio,    \* settings['trading']['portfolio'] and portfolio_data.json
  sizing,       \* position sizing spec: the last _calculate_position_size call
  exits,        \* AutoExit: active_positions, exit_history and the calls in progress
  trail,        \* trailing-stop spec: a Position, its updates and its evaluations
  solx,         \* AutoExit._exit_solana spec: the call in progress and its dispatches
  rsn,          \* Sniper._snipe_solana spec: the call in progress and its retry loop
  io            \* concurrent JSONFileCache spec: the get and the set in progress

cacheVars   == <<lastGet, purged, written>>
antiRugVars == <<settings, ar>>
sniperVars  == <<pending_txs, blacklist, sn>>
ledgerVars  == <<positions, history, lock, pm, portfolio>>
pathVars    == <<solx, rsn, io>>
exitVars    == <<exits, trail, pathVars>>

vars ==
  <<clock, files, lastGet, purged, written, settings, ar, pending_txs, blacklist,
    sn, positions, history, lock, pm, portfolio, sizing, exits, trail, solx, rsn, io>>

-----------------------------------------------------------------------------
(* Time *)

\* The instants the clock passes through (seconds since start). They sit on
\* both sides of the two windows of the program: 120 s (pending entry) and
\* 300 s (cache max_age).
Instants == <<0, 119, 120, 300, 301, 421, 602>>

now == Instants[clock]

\* time passing between two statements of the program
Tick ==
  /\ clock < Len(Instants)
  /\ clock' = clock + 1

-----------------------------------------------------------------------------
(* The finite universe of the model *)

\* token addresses: a 20-byte hex address (EVM) and a base58 address (Solana)
EvmTokens == {"0xA"}

SolanaTokens == {"So1"}

Tokens == EvmTokens \cup SolanaTokens

\* ChainHelpers().shorten_address(addr), as Sniper and PortfolioManager call it
\* when they build a log line: their ChainHelpers is constructed for 'ethereum',
\* so checksum() hands the address to Web3.to_checksum_address, and the
\* ValueError of an address that is not 20 hex bytes is raised to the caller
shorten_address_raises(tok) == tok \notin EvmTokens

\* the threads of main.py: _main_loop, _run_token_scanner, _run_auto_exit, _run_dashboard
Threads == {"main", "scanner", "exit", "dashboard"}

\* chain names AntiRugChecker accepts (ChainHelpers.CHAIN_NATIVE_UNITS, the EVM ones)
CheckerChains == {"ethereum", "binancesmartchain"}

\* the keys of the cache directory
ProbeKeys == {<<"probe", tok>> : tok \in Tokens}

AntiRugKeys ==
  {<<name, tok>> : name \in {"contract_verification", "renounced", "dev_holding",
                              "holder_count", "liquidity_lock"}, tok \in Tokens}
  \cup {<<"honeypot", tok, ch>> : tok \in Tokens, ch \in CheckerChains}

\* token_info['chain'], token_info['dex'] of the candidates the scanner hands over:
\* the EVM venue, the two Solana venues, and a chain Sniper.execute does not support
CandidateKinds ==
  { <<"ethereum", "uniswapv3">>, <<"solana", "raydium">>, <<"solana", "jupiter">>,
    <<"polygon", "quickswap">> }

\* the venues the scanner reports candidates from in one run (config/chains.json):
\* the EVM venue, the Solana venues, or a chain the Sniper has no branch for
VenueConfigs ==
  { {<<"ethereum", "uniswapv3">>},
    {<<"solana", "raydium">>, <<"solana", "jupiter">>},
    {<<"polygon", "quickswap">>} }

\* a candidate's address has the format of its chain
Candidates ==
  {c \in [token : Tokens, chain : {k[1] : k \in CandidateKinds},
          dex : {k[2] : k \in CandidateKinds}] :
     /\ <<c.chain, c.dex>> \in CandidateKinds
     /\ c.token \in SolanaTokens <=> c.chain = "solana"}

\* f"snipe_{chain}_{dex}_{token_address}"
SnipeKey(c) == <<"snipe", c.chain, c.dex, c.token>>

SnipeKeys == {SnipeKey(c) : c \in Candidates}

\* the (chain, dex) a token is listed on, as the scanner reports it
VenueOf(tok) ==
  IF tok \in EvmTokens THEN [chain |-> "ethereum", dex |-> "uniswapv3"]
  ELSE [chain |-> "solana", dex |-> "raydium"]

\* f"price_{chain}_{token_address}"
PriceKey(chain, tok) == <<"price", chain, tok>>

\* f"close_position_{pos.chain}_{token_address}"
ClosePositionKey(chain, tok) == <<"close_position", chain, tok>>

\* the names of the 5-minute windows int(time.time() // 300) the clock passes through
WindowNames == <<"w0", "w1", "w2">>

\* f"portfolio_value_{int(time.time() // 300)}" at time t
PortfolioValueKey(t) == <<"portfolio_value", WindowNames[(t \div 300) + 1]>>

\* f"portfolio_data_{os.path.getmtime(self.file_path)}": the file is never rewritten
PortfolioDataKey == <<"portfolio_data", "mtime">>

LedgerKeys ==
  {PriceKey(VenueOf(tok).chain, tok) : tok \in Tokens}
  \cup {ClosePositionKey(VenueOf(tok).chain, tok) : tok \in Tokens}
  \cup {<<"portfolio_value", WindowNames[i]>> : i \in DOMAIN WindowNames}
  \cup {PortfolioDataKey}

\* f"exit_{chain}_{token_address}_{amount}" (one amount per token in the model)
ExitKey(chain, tok) == <<"exit", chain, tok>>

\* f"fallback_exit_{chain}_{token_address}_{amount}"
FallbackKey(chain, tok) == <<"fallback_exit", chain, tok>>

ExitKeys ==
  {ExitKey(VenueOf(tok).chain, tok) : tok \in Tokens}
  \cup {FallbackKey(VenueOf(tok).chain, tok) : tok \in Tokens}

CacheKeys == ProbeKeys \cup AntiRugKeys \cup SnipeKeys \cup LedgerKeys \cup ExitKeys

-----------------------------------------------------------------------------
(* utils/caching.py: JSONFileCache *)

\* max_age=300 of the caches of Sniper, PortfolioManager, AntiRugChecker, AutoExit
MaxAge == 300

\* Python's None
None == [none |-> TRUE]

\* a cache key with no file in the cache directory
NoFile == [exists |-> FALSE, text |-> [empty |-> TRUE], mtime |-> 0]

\* what open(path, 'w') leaves when json.dump raises TypeError: a truncated file
Truncated == [empty |-> TRUE]

\* values json.dump cannot serialise (a Decimal)
IsSerializable(v) == ~("decimal" \in DOMAIN v)

\* json.dump(value, f): the file's text
json_dump(v) == IF IsSerializable(v) THEN [json |-> v] ELSE Truncated

\* json.load(f) raises JSONDecodeError on a truncated file
json_decodes(text) == "json" \in DOMAIN text

\* json.load(f): JSON null loads as None
json_load(text) == IF "null" \in DOMAIN text.json THEN None ELSE text.json

\* cache_file.stat().st_mtime older than max_age
IsExpired(f, maxAge, t) == t - f.mtime > maxAge

\* JSONFileCache.get: the value returned
JSONFileCache_get(fs, key, maxAge, t) ==
  IF ~fs[key].exists THEN None
  ELSE IF IsExpired(fs[key], maxAge, t) THEN None
  ELSE IF ~json_decodes(fs[key].text) THEN None
  ELSE json_load(fs[key].text)

\* The mutant of JSONFileCache_get_files: an expired file is reported as a miss
\* but left in the cache directory.
JSONFileCache_get_files_kept(fs, key, maxAge, t) == fs

\* JSONFileCache.get: the cache directory afterwards (unlink on expiry or decode error)
JSONFileCache_get_files(fs, key, maxAge, t) ==
  IF fs[key].exists /\ (IsExpired(fs[key], maxAge, t) \/ ~json_decodes(fs[key].text))
  THEN [fs EXCEPT ![key] = NoFile]
  ELSE fs

\* JSONFileCache.set: the cache directory afterwards
JSONFileCache_set(fs, key, value, t) ==
  [fs EXCEPT ![key] = [exists |-> TRUE, text |-> json_dump(value), mtime |-> t]]

-----------------------------------------------------------------------------
(* core/anti_rug.py: AntiRugChecker *)

\* max_retries=3, the default of every check
max_retries == 3

\* the order of the list `checks` in run_all_checks
Checks ==
  << "check_contract_verification", "check_honeypot", "check_renounced",
     "check_dev_holding", "check_holder_count", "check_liquidity_lock" >>

CheckNames == {Checks[i] : i \in 1..Len(Checks)}

\* What the network gives one check: `errs` attempts raise, then (if an attempt
\* is left) the call returns an answer that passes ("good") or fails ("bad").
NetOutcomes == [errs : 0..max_retries, ans : {"good", "bad"}]

\* what a check did: its return value (or that it raised), the cache directory
\* afterwards, the attempts made, how many of them raised, and what the cache
\* holds under the key of the check afterwards (None when the check did not write)
CheckOutcome(result, raised, fs, attempts, failures, memo) ==
  [result |-> result, raised |-> raised, files |-> fs, attempts |-> attempts,
   failures |-> failures, memo |-> memo]

\* The mutant of RetryLoop: the loop gives up with True, as the skipped checks do.
RetryLoop_fail_open(fs, key, net, goodVal, badVal, failVal, t) ==
  LET answer == IF net.ans = "good" THEN goodVal ELSE badVal
      fsFail == JSONFileCache_set(fs, key, failVal, t)
      fsAns  == JSONFileCache_set(fs, key, answer, t)
  IN  IF net.errs >= max_retries
      THEN CheckOutcome(TRUE, FALSE, fsFail, max_retries, max_retries,
                        JSONFileCache_get(fsFail, key, MaxAge, t))
      ELSE CheckOutcome(net.ans = "good", FALSE, fsAns, net.errs + 1, net.errs,
                        JSONFileCache_get(fsAns, key, MaxAge, t))

\* the retry loop shared by the checks: `for attempt in range(max_retries)`,
\* an exception on the last attempt memoizes the failing value and returns False
RetryLoop(fs, key, net, goodVal, badVal, failVal, t) ==
  LET answer == IF net.ans = "good" THEN goodVal ELSE badVal
      fsFail == JSONFileCache_set(fs, key, failVal, t)
      fsAns  == JSONFileCache_set(fs, key, answer, t)
  IN  IF net.errs >= max_retries
      THEN CheckOutcome(FALSE, FALSE, fsFail, max_retries, max_retries,
                        JSONFileCache_get(fsFail, key, MaxAge, t))
      ELSE CheckOutcome(net.ans = "good", FALSE, fsAns, net.errs + 1, net.errs,
                        JSONFileCache_get(fsAns, key, MaxAge, t))

\* a check that returns True without cache or network
Skipped(fs) == CheckOutcome(TRUE, FALSE, fs, 0, 0, None)

\* a check answered from the cache
FromCache(fs, key, verdict, t) ==
  CheckOutcome(verdict, FALSE, JSONFileCache_get_files(fs, key, MaxAge, t), 0, 0, None)

\* self.helpers.get_chain_id(): ChainHelpers defines no such method, the
\* AttributeError leaves the check and run_all_checks
get_chain_id_raises(fs) == CheckOutcome(FALSE, TRUE, fs, 0, 0, None)

check_contract_verification(fs, tok, chain, st, net, t) ==
  LET key    == <<"contract_verification", tok>>
      cached == JSONFileCache_get(fs, key, MaxAge, t)
      fs1    == JSONFileCache_get_files(fs, key, MaxAge, t)
  IN  IF cached # None THEN FromCache(fs, key, cached.bool, t)
      ELSE RetryLoop(fs1, key, net, [bool |-> TRUE], [bool |-> FALSE],
                     [bool |-> FALSE], t)

\* lines 97-106, then line 107: the cache key is built from get_chain_id()
\* before the cache is read, so nothing below line 107 is ever run
check_honeypot(fs, tok, chain, st, net, t) ==
  IF ~st.honeypot_api_key THEN Skipped(fs)
  ELSE get_chain_id_raises(fs)

\* The mutant of check_renounced: the check asks the chain whatever is memoized.
check_renounced_uncached(fs, tok, chain, st, net, t) ==
  RetryLoop(fs, <<"renounced", tok>>, net, [is_renounced |-> TRUE],
            [is_renounced |-> FALSE], [is_renounced |-> FALSE], t)

check_renounced(fs, tok, chain, st, net, t) ==
  LET key    == <<"renounced", tok>>
      cached == JSONFileCache_get(fs, key, MaxAge, t)
      fs1    == JSONFileCache_get_files(fs, key, MaxAge, t)
  IN  IF cached # None THEN FromCache(fs, key, cached.is_renounced, t)
      ELSE RetryLoop(fs1, key, net, [is_renounced |-> TRUE], [is_renounced |-> FALSE],
                     [is_renounced |-> FALSE], t)

check_dev_holding(fs, tok, chain, st, net, t) ==
  LET key    == <<"dev_holding", tok>>
      cached == JSONFileCache_get(fs, key, MaxAge, t)
      fs1    == JSONFileCache_get_files(fs, key, MaxAge, t)
  IN  IF cached # None THEN FromCache(fs, key, cached.is_valid, t)
      ELSE RetryLoop(fs1, key, net, [is_valid |-> TRUE], [is_valid |-> FALSE],
                     [is_valid |-> FALSE], t)

\* lines 306-333: without a cached result line 333 calls get_chain_id() before
\* the explorer URL of the chain is looked up, so neither the unsupported-chain
\* return nor the retry loop is ever run
check_holder_count(fs, tok, chain, st, net, t) ==
  LET key    == <<"holder_count", tok>>
      cached == JSONFileCache_get(fs, key, MaxAge, t)
      fs1    == JSONFileCache_get_files(fs, key, MaxAge, t)
  IN  IF ~st.explorer_api_key THEN Skipped(fs)
      ELSE IF cached # None THEN FromCache(fs, key, cached.is_valid, t)
      ELSE get_chain_id_raises(fs1)

check_liquidity_lock(fs, tok, chain, st, net, t) ==
  LET key    == <<"liquidity_lock", tok>>
      cached == JSONFileCache_get(fs, key, MaxAge, t)
      fs1    == JSONFileCache_get_files(fs, key, MaxAge, t)
  IN  IF ~st.lp_token_address THEN Skipped(fs)
      ELSE IF cached # None THEN FromCache(fs, key, cached.is_valid, t)
      ELSE RetryLoop(fs1, key, net, [is_valid |-> TRUE], [is_valid |-> FALSE],
                     [is_valid |-> FALSE], t)

\* check_func() for the entry `name` of the list `checks`
check_func(name, fs, tok, chain, st, net, t) ==
  CASE name = "check_contract_verification" ->
         check_contract_verification(fs, tok, chain, st, net, t)
    [] name = "check_honeypot"     -> check_honeypot(fs, tok, chain, st, net, t)
    [] name = "check_renounced"    -> check_renounced(fs, tok, chain, st, net, t)
    [] name = "check_dev_holding"  -> check_dev_holding(fs, tok, chain, st, net, t)
    [] name = "check_holder_count" -> check_holder_count(fs, tok, chain, st, net, t)
    [] OTHER                       -> check_liquidity_lock(fs, tok, chain, st, net, t)

\* The mutant of IsEnabled: every check runs whatever the settings say.
IsEnabled_ignored(st, name) == TRUE

\* self.settings.get(check_name, True)
IsEnabled(st, name) == st.enabled[name]

\* the check called last by a run, and what it did
LastCheck(name, outcome) ==
  [check |-> name, result |-> outcome.result, raised |-> outcome.raised,
   attempts |-> outcome.attempts, failures |-> outcome.failures,
   memo |-> outcome.memo]

\* no check called yet
NoCheck == LastCheck("", Skipped(<<>>))

\* no run_all_checks call made by this thread yet
NoRun ==
  [active |-> FALSE, token |-> "", chain |-> "", idx |-> 0, invoked |-> {},
   failed |-> {}, verdict |-> "none", runs |-> 0, last |-> NoCheck,
   started |-> 0, prev |-> None]

\* the state of a call of run_all_checks() as it is entered
NewRun(tok, chain) ==
  [active |-> TRUE, token |-> tok, chain |-> chain, idx |-> 1, invoked |-> {},
   failed |-> {}, verdict |-> "none", runs |-> 0, last |-> NoCheck,
   started |-> 0, prev |-> None]

\* The mutant of RunAfterCheck: a failed check is noted and the loop goes on.
RunAfterCheck_no_stop(run, st, outcome) ==
  LET name == Checks[run.idx]
  IN  IF ~IsEnabled(st, name)
      THEN [run EXCEPT !.idx = @ + 1]
      ELSE IF outcome.raised
      THEN [run EXCEPT !.invoked = @ \cup {name}, !.verdict = "raised",
                       !.active = FALSE, !.last = LastCheck(name, outcome)]
      ELSE IF ~outcome.result
      THEN [run EXCEPT !.invoked = @ \cup {name}, !.failed = @ \cup {name},
                       !.idx = @ + 1, !.last = LastCheck(name, outcome)]
      ELSE [run EXCEPT !.invoked = @ \cup {name}, !.idx = @ + 1,
                       !.last = LastCheck(name, outcome)]

\* one turn of `for check_name, check_func in checks`: the run afterwards
RunAfterCheck(run, st, outcome) ==
  LET name == Checks[run.idx]
  IN  IF ~IsEnabled(st, name)
      THEN [run EXCEPT !.idx = @ + 1]
      ELSE IF outcome.raised
      THEN [run EXCEPT !.invoked = @ \cup {name}, !.verdict = "raised",
                       !.active = FALSE, !.last = LastCheck(name, outcome)]
      ELSE IF ~outcome.result
      THEN [run EXCEPT !.invoked = @ \cup {name}, !.failed = @ \cup {name},
                       !.verdict = "false", !.active = FALSE,
                       !.last = LastCheck(name, outcome)]
      ELSE [run EXCEPT !.invoked = @ \cup {name}, !.idx = @ + 1,
                       !.last = LastCheck(name, outcome)]

\* the loop of run_all_checks has ended without a failure: return True
RunAfterLoop(run) ==
  IF run.active /\ run.idx > Len(Checks)
  THEN [run EXCEPT !.verdict = "true", !.active = FALSE]
  ELSE run

\* run_all_checks, one turn of its loop: the check at run.idx is skipped when the
\* settings disable it, and called otherwise
run_all_checks_step(th, net) ==
  /\ ar[th].active
  /\ ar[th].idx <= Len(Checks)
  /\ LET run     == ar[th]
         name    == Checks[run.idx]
         outcome == check_func(name, files, run.token, run.chain, settings, net, now)
     IN  /\ ar' = [ar EXCEPT ![th] = RunAfterLoop(RunAfterCheck(run, settings, outcome))]
         /\ files' = IF IsEnabled(settings, name) THEN outcome.files ELSE files

\* the settings AntiRugChecker can be constructed with
AntiRugSettings ==
  [ venues           : VenueConfigs,
    anti_rug_enabled : BOOLEAN,
    enabled          : [CheckNames -> BOOLEAN],
    honeypot_api_key : BOOLEAN,
    explorer_api_key : BOOLEAN,
    lp_token_address : BOOLEAN ]

-----------------------------------------------------------------------------
(* core/sniper.py: Sniper *)

\* the number of execute calls made in a run of the model, all threads together
MaxCalls == 3

\* the calls made so far
CallsMade == sn["scanner"].calls + sn["dashboard"].calls

\* the state the Sniper does not touch
sniperRest == <<cacheVars, ledgerVars, sizing, exitVars>>

\* the staleness window of a pending entry: `time.time() - pending_txs[t] < 120`
PendingWindow == 120

\* no entry for the token in pending_txs (owner is the thread that wrote the entry)
NoPending == [present |-> FALSE, ts |-> 0, owner |-> ""]

\* a thread that is not inside Sniper.execute and has not called it. The last
\* four fields record the course of _snipe_ethereum: the steps passed, the step
\* that failed, the result of the swap, and what _snipe_ethereum did ("true",
\* "false", "raised")
NoCall ==
  [pc |-> "idle", cand |-> [token |-> "", chain |-> "", dex |-> ""], start |-> 0,
   blAtCall |-> FALSE, memo |-> "none", registered |-> FALSE, dispatched |-> FALSE,
   attempt |-> 0, result |-> "none", calls |-> 0,
   passed |-> {}, failedAt |-> "none", swap |-> "none", snipe |-> "none"]

\* the results memoized under the snipe key
SnipeSuccess == [status |-> "success"]
SnipeFailed  == [status |-> "failed"]

\* The mutant of blacklist_add: the token is not added.
blacklist_add_skipped(bl, tok) == bl

\* self.blacklist.add(token_address)
blacklist_add(bl, tok) == bl \cup {tok}

\* The mutant of IsBlacklisted: the blacklist is never consulted.
IsBlacklisted_never(bl, tok) == FALSE

\* `token_address in self.blacklist`
IsBlacklisted(bl, tok) == tok \in bl

\* The mutant of FinallyDel: the finally block leaves the entry in place.
FinallyDel_kept(pt, tok) == pt

\* `del self.pending_txs[token_address]` of the finally block
FinallyDel(pt, tok) == [pt EXCEPT ![tok] = NoPending]

\* The mutant of IsPendingFresh: a pending entry never blocks.
IsPendingFresh_never(pt, tok, t) == FALSE

\* `time.time() - self.pending_txs[token_address] < 120`
IsPendingFresh(pt, tok, t) == t - pt[tok].ts < PendingWindow

\* the call leaves execute with `value` ("true", "false" or "raised")
Return(call, value) == [call EXCEPT !.pc = "returned", !.result = value]

\* execute(token_info) is entered
SnCall(th, c) ==
  /\ sn[th].pc = "idle"
  /\ <<c.chain, c.dex>> \in settings.venues
  /\ CallsMade < MaxCalls
  /\ sn' = [sn EXCEPT ![th] =
              [NoCall EXCEPT !.pc = "cache", !.cand = c, !.start = now,
                             !.blAtCall = c.token \in blacklist,
                             !.calls = sn[th].calls + 1]]
  /\ UNCHANGED <<clock, files, pending_txs, blacklist, antiRugVars, sniperRest>>

\* the caller takes the result (main.py:219, dashboard.py:218) and goes on
SnReturned(th) ==
  /\ sn[th].pc = "returned"
  /\ sn' = [sn EXCEPT ![th] = [NoCall EXCEPT !.calls = sn[th].calls]]
  /\ UNCHANGED <<clock, files, pending_txs, blacklist, antiRugVars, sniperRest>>

\* lines 62-96: the memoized result, if any, is the verdict; the log line of
\* either branch is built before the branch acts
SnCacheGet(th) ==
  /\ sn[th].pc = "cache"
  /\ LET key    == SnipeKey(sn[th].cand)
         cached == JSONFileCache_get(files, key, MaxAge, now)
         raises == shorten_address_raises(sn[th].cand.token)
     IN  /\ files' = JSONFileCache_get_files(files, key, MaxAge, now)
         /\ IF cached = None
            THEN /\ sn' = [sn EXCEPT ![th].pc = "blacklist"]
                 /\ UNCHANGED blacklist
            ELSE IF raises
            THEN /\ sn' = [sn EXCEPT ![th] =
                             Return([@ EXCEPT !.memo = cached.status], "raised")]
                 /\ UNCHANGED blacklist
            ELSE IF cached.status = "success"
            THEN /\ sn' = [sn EXCEPT ![th] = Return([@ EXCEPT !.memo = "success"], "true")]
                 /\ UNCHANGED blacklist
            ELSE /\ sn' = [sn EXCEPT ![th] = Return([@ EXCEPT !.memo = "failed"], "false")]
                 /\ blacklist' = blacklist_add(blacklist, sn[th].cand.token)
  /\ UNCHANGED <<clock, pending_txs, antiRugVars, sniperRest>>

\* lines 98-104
SnBlacklist(th) ==
  /\ sn[th].pc = "blacklist"
  /\ sn' = [sn EXCEPT ![th] =
              IF ~IsBlacklisted(blacklist, sn[th].cand.token)
              THEN [@ EXCEPT !.pc = "pending"]
              ELSE IF shorten_address_raises(sn[th].cand.token)
              THEN Return(@, "raised") ELSE Return(@, "false")]
  /\ UNCHANGED <<clock, files, pending_txs, blacklist, antiRugVars, sniperRest>>

\* lines 106-119: a fresh pending entry rejects the call, a stale one is cleared
SnPending(th) ==
  /\ sn[th].pc = "pending"
  /\ LET tok == sn[th].cand.token
     IN  sn' = [sn EXCEPT ![th] =
                  IF ~pending_txs[tok].present THEN [@ EXCEPT !.pc = "register"]
                  ELSE IF shorten_address_raises(tok) THEN Return(@, "raised")
                  ELSE IF IsPendingFresh(pending_txs, tok, now) THEN Return(@, "false")
                  ELSE [@ EXCEPT !.pc = "clear_stale"]]
  /\ UNCHANGED <<clock, files, pending_txs, blacklist, antiRugVars, sniperRest>>

\* line 120: `del self.pending_txs[token_address]`, outside the try: a KeyError
\* (another thread deleted the entry meanwhile) leaves execute
SnClearStale(th) ==
  /\ sn[th].pc = "clear_stale"
  /\ LET tok == sn[th].cand.token
     IN  IF pending_txs[tok].present
         THEN /\ pending_txs' = [pending_txs EXCEPT ![tok] = NoPending]
              /\ sn' = [sn EXCEPT ![th].pc = "register"]
         ELSE /\ sn' = [sn EXCEPT ![th] = Return(@, "raised")]
              /\ UNCHANGED pending_txs
  /\ UNCHANGED <<clock, files, blacklist, antiRugVars, sniperRest>>

\* line 123: `self.pending_txs[token_address] = time.time()`
SnRegister(th) ==
  /\ sn[th].pc = "register"
  /\ pending_txs' = [pending_txs EXCEPT ![sn[th].cand.token] =
                       [present |-> TRUE, ts |-> now, owner |-> th]]
  /\ sn' = [sn EXCEPT ![th].pc = "dispatch", ![th].registered = TRUE]
  /\ UNCHANGED <<clock, files, blacklist, antiRugVars, sniperRest>>

\* lines 125-145, and 170-174 of _snipe_ethereum: the "Attempting snipe" log
\* line, then the branch on the chain. AntiRugChecker's constructor can raise
\* (Web3 provider, contract construction).
SnDispatch(th, ctor) ==
  /\ sn[th].pc = "dispatch"
  /\ LET c == sn[th].cand
     IN  CASE shorten_address_raises(c.token) ->
                /\ sn' = [sn EXCEPT ![th].pc = "except"]
                /\ UNCHANGED <<files, ar>>
           [] c.chain = "ethereum" /\ settings.anti_rug_enabled /\ ctor = "ok" ->
                /\ sn' = [sn EXCEPT ![th].pc = "anti_rug"]
                /\ ar' = [ar EXCEPT ![th] = NewRun(c.token, "ethereum")]
                /\ UNCHANGED files
           [] c.chain = "ethereum" /\ settings.anti_rug_enabled /\ ctor = "raise" ->
                /\ sn' = [sn EXCEPT ![th].pc = "except", ![th].snipe = "raised"]
                /\ UNCHANGED <<files, ar>>
           [] c.chain = "ethereum" /\ ~settings.anti_rug_enabled ->
                /\ sn' = [sn EXCEPT ![th].pc = "balance"]
                /\ UNCHANGED <<files, ar>>
           [] c.chain = "solana" ->
                /\ sn' = [sn EXCEPT ![th].pc = "solana"]
                /\ UNCHANGED <<files, ar>>
           [] OTHER ->
                /\ files' = JSONFileCache_set(files, SnipeKey(c), SnipeFailed, now)
                /\ sn' = [sn EXCEPT ![th].pc = "finally", ![th].result = "false"]
                /\ UNCHANGED ar
  /\ UNCHANGED <<clock, pending_txs, blacklist, settings, sniperRest>>

\* line 175: checker.run_all_checks(), one check at a time
SnAntiRugStep(th, net) ==
  /\ sn[th].pc = "anti_rug"
  /\ run_all_checks_step(th, net)
  /\ UNCHANGED <<clock, settings, sniperVars, sniperRest>>

\* lines 175-190: the verdict of run_all_checks, after which the checker object
\* is dropped. On a rejection line 176 calls checker.get_failed_checks(), which
\* AntiRugChecker does not define: the AttributeError leaves _snipe_ethereum
\* before its cache.set and its return False.
SnAntiRugVerdict(th) ==
  /\ sn[th].pc = "anti_rug"
  /\ ~ar[th].active
  /\ sn' = [sn EXCEPT ![th] =
              IF ar[th].verdict = "true"
              THEN [@ EXCEPT !.pc = "balance", !.passed = @ \cup {"safety"}]
              ELSE [@ EXCEPT !.pc = "except", !.snipe = "raised",
                             !.failedAt = IF ar[th].verdict = "false" THEN "safety"
                                          ELSE @]]
  /\ ar' = [ar EXCEPT ![th] = NoRun]
  /\ UNCHANGED <<clock, files, pending_txs, blacklist, settings, sniperRest>>

\* lines 192-205: w3.eth.get_balance against min_balance
SnBalance(th, balance) ==
  /\ sn[th].pc = "balance"
  /\ CASE balance = "enough" ->
            /\ sn' = [sn EXCEPT ![th].pc = "gas", ![th].passed = @ \cup {"balance"}]
            /\ UNCHANGED files
       [] balance = "low" ->
            /\ files' = JSONFileCache_set(files, SnipeKey(sn[th].cand), SnipeFailed, now)
            /\ sn' = [sn EXCEPT ![th].pc = "not_result", ![th].failedAt = "balance",
                                ![th].snipe = "false"]
       [] OTHER ->
            /\ sn' = [sn EXCEPT ![th].pc = "except", ![th].snipe = "raised"]
            /\ UNCHANGED files
  /\ UNCHANGED <<clock, pending_txs, blacklist, antiRugVars, sniperRest>>

\* lines 207-228 and 238, 257: gas parameters, then the branch on the dex
SnGas(th, gas) ==
  /\ sn[th].pc = "gas"
  /\ CASE gas = "ok" /\ sn[th].cand.dex = "uniswapv3" ->
            /\ sn' = [sn EXCEPT ![th].pc = "swap_uniswap", ![th].passed = @ \cup {"gas"}]
            /\ UNCHANGED files
       [] gas = "ok" /\ sn[th].cand.dex # "uniswapv3" ->
            /\ sn' = [sn EXCEPT ![th].pc = "not_result", ![th].passed = @ \cup {"gas"},
                                ![th].snipe = "false"]
            /\ UNCHANGED files
       [] OTHER ->
            /\ files' = JSONFileCache_set(files, SnipeKey(sn[th].cand), SnipeFailed, now)
            /\ sn' = [sn EXCEPT ![th].pc = "not_result", ![th].failedAt = "gas",
                                ![th].snipe = "false"]
  /\ UNCHANGED <<clock, pending_txs, blacklist, antiRugVars, sniperRest>>

\* lines 239-256: self.uniswap.execute_swap and its result
SnSwapUniswap(th, swap) ==
  /\ sn[th].pc = "swap_uniswap"
  /\ CASE swap = "confirmed" ->
            /\ files' = JSONFileCache_set(files, SnipeKey(sn[th].cand), SnipeSuccess, now)
            /\ sn' = [sn EXCEPT ![th].pc = "finally", ![th].result = "true",
                                ![th].dispatched = TRUE, ![th].swap = swap,
                                ![th].snipe = "true"]
       [] swap = "failed" ->
            /\ files' = JSONFileCache_set(files, SnipeKey(sn[th].cand), SnipeFailed, now)
            /\ sn' = [sn EXCEPT ![th].pc = "not_result", ![th].dispatched = TRUE,
                                ![th].swap = swap, ![th].snipe = "false"]
       [] OTHER ->
            /\ sn' = [sn EXCEPT ![th].pc = "except", ![th].dispatched = TRUE,
                                ![th].swap = swap, ![th].snipe = "raised"]
            /\ UNCHANGED files
  /\ UNCHANGED <<clock, pending_txs, blacklist, antiRugVars, sniperRest>>

\* retries=3, the default of _retry_solana_snipe
retries == 3

\* lines 147-151: `if not result`: blacklist and memoize the failure
SnNotResult(th) ==
  /\ sn[th].pc = "not_result"
  /\ blacklist' = blacklist_add(blacklist, sn[th].cand.token)
  /\ files' = JSONFileCache_set(files, SnipeKey(sn[th].cand), SnipeFailed, now)
  /\ sn' = [sn EXCEPT ![th].pc = "finally", ![th].result = "false"]
  /\ UNCHANGED <<clock, pending_txs, antiRugVars, sniperRest>>

\* lines 153-163: `except Exception`: log, memoize the failure, return False;
\* when the log line cannot be built the handler raises before it memoizes
SnExcept(th) ==
  /\ sn[th].pc = "except"
  /\ IF shorten_address_raises(sn[th].cand.token)
     THEN /\ sn' = [sn EXCEPT ![th].pc = "finally", ![th].result = "raised"]
          /\ UNCHANGED files
     ELSE /\ files' = JSONFileCache_set(files, SnipeKey(sn[th].cand), SnipeFailed, now)
          /\ sn' = [sn EXCEPT ![th].pc = "finally", ![th].result = "false"]
  /\ UNCHANGED <<clock, pending_txs, blacklist, antiRugVars, sniperRest>>

\* line 165: `if token_address in self.pending_txs`
SnFinallyCheck(th) ==
  /\ sn[th].pc = "finally"
  /\ sn' = [sn EXCEPT ![th] =
              IF pending_txs[sn[th].cand.token].present
              THEN [@ EXCEPT !.pc = "finally_del"] ELSE Return(@, @.result)]
  /\ UNCHANGED <<clock, files, pending_txs, blacklist, antiRugVars, sniperRest>>

\* line 166: `del self.pending_txs[token_address]`; a KeyError replaces the result
SnFinallyDel(th) ==
  /\ sn[th].pc = "finally_del"
  /\ LET tok == sn[th].cand.token
     IN  IF pending_txs[tok].present
         THEN /\ pending_txs' = FinallyDel(pending_txs, tok)
              /\ sn' = [sn EXCEPT ![th] = Return(@, @.result)]
         ELSE /\ sn' = [sn EXCEPT ![th] = Return(@, "raised")]
              /\ UNCHANGED pending_txs
  /\ UNCHANGED <<clock, files, blacklist, antiRugVars, sniperRest>>

-----------------------------------------------------------------------------
(* Decimal arithmetic: exact rationals <<n, d>> with d > 0, in lowest terms *)

Abs(x) == IF x < 0 THEN 0 - x ELSE x

RECURSIVE GCD(_, _)
GCD(a, b) == IF b = 0 THEN a ELSE GCD(b, a % b)

\* the rational n/d (d # 0) in lowest terms with a positive denominator
Rat(n, d) ==
  LET g == GCD(Abs(n), Abs(d))
      k == IF d < 0 THEN 0 - 1 ELSE 1
  IN  <<(k * n) \div g, (k * d) \div g>>

RInt(n) == <<n, 1>>

RAdd(a, b) == Rat(a[1] * b[2] + b[1] * a[2], a[2] * b[2])

RSub(a, b) == Rat(a[1] * b[2] - b[1] * a[2], a[2] * b[2])

RMul(a, b) == Rat(a[1] * b[1], a[2] * b[2])

\* a / b for b # 0 (Decimal raises on a zero divisor: callers test for it)
RDiv(a, b) == Rat(a[1] * b[2], a[2] * b[1])

RLe(a, b) == a[1] * b[2] <= b[1] * a[2]

\* Python's min(a, b) and max(a, b): the first argument wins a tie
RMin(a, b) == IF RLe(a, b) THEN a ELSE b

RMax(a, b) == IF RLe(b, a) THEN a ELSE b

-----------------------------------------------------------------------------
(* core/portfolio_manager.py: PortfolioManager._calculate_position_size *)

\* a number as a Python value, beside None
Num(r) == [num |-> r]

\* no 'volatility' key in token_info
NoVolatility == [absent |-> TRUE]

\* min(Decimal('1.5'), Decimal('0.5') + volatility)
volatility_adjustment(vol) == RMin(<<3, 2>>, RAdd(<<1, 2>>, vol))

\* The mutant of Clamp: the lower bound is not applied.
Clamp_upper_only(size, minSize, maxSize) == RMin(size, maxSize)

\* max(min_size, min(position_size, max_size))
Clamp(size, minSize, maxSize) == RMax(minSize, RMin(size, maxSize))

\* a value returned, or an exception raised to the caller
Returned(v) == [raised |-> FALSE, value |-> v]

Raised == [raised |-> TRUE]

\* _calculate_position_size(token_info, entry_price), given what
\* get_portfolio_value() returned (Decimal('0') when the valuation failed).
\* cfg holds max_risk_per_trade, min_position_size and max_position_size.
\* Decimal(str(None)) of a failed quote and a division by zero (the price, or
\* the volatility adjustment) are caught and answered with min_position_size; the log line of either path is built with
\* shorten_address, which raises past the handler.
calculate_position_size(tok, pv, price, vol, cfg) ==
  LET risk_amount == RMul(pv, RDiv(cfg.max_risk_per_trade, RInt(100)))
      noPrice     == price = None \/ price.num[1] = 0
      hasVol      == ~("absent" \in DOMAIN vol)
      adjZero     == hasVol /\ volatility_adjustment(vol.value)[1] = 0
      adjusted    == IF hasVol /\ ~adjZero
                     THEN RDiv(risk_amount, volatility_adjustment(vol.value))
                     ELSE risk_amount
      failed      == adjZero \/ noPrice
  IN  IF shorten_address_raises(tok) THEN Raised
      ELSE IF failed THEN Returned(cfg.min_position_size)
      ELSE Returned(Clamp(RDiv(adjusted, price.num), cfg.min_position_size,
                          cfg.max_position_size))

-----------------------------------------------------------------------------
(* core/portfolio_manager.py: PortfolioManager *)

\* The ledger's state is the dict self.positions (here the set of its values,
\* one per key), the list self.history, the lock and the cache directory.
\* Decimals and floats are exact rationals; entry_time, duration and tx_hash
\* are left out of the records.

\* the threads that call the ledger: _main_loop, _run_token_scanner, _run_auto_exit
LedgerThreads == {"main", "scanner", "exit"}

\* an exception raised by a collaborator
RaiseOutcome == [raise |-> TRUE]

\* what a venue quotes for one token: nothing, and more than the entry prices of the model
PriceQuotes == {0, 3}

\* get_quote of a venue client: a price, None after its retries, or an exception
QuoteOutcomes == {Num(RInt(n)) : n \in PriceQuotes} \cup {None, RaiseOutcome}

\* the wallet balance read by get_portfolio_value: a balance, or an RPC error
BalanceOutcomes == {Num(RInt(50000)), RaiseOutcome}

\* exit_price of a close_position call: not given (None), or a price
ExitPrices == {None} \cup {Num(RInt(n)) : n \in {1, 3}}

\* self.positions operations
HasPosition(ps, tok) == \E p \in ps : p.token_address = tok

PositionOf(ps, tok) == CHOOSE p \in ps : p.token_address = tok

\* self.positions[token_address] = p
DictPut(ps, p) == {q \in ps : q.token_address # p.token_address} \cup {p}

\* del self.positions[token_address]
DictDel(ps, tok) == {q \in ps : q.token_address # tok}

\* Position(token_address, chain, dex, entry_price, amount, high_price=entry_price)
Position(tok, chain, dex, price, amount) ==
  [token_address |-> tok, chain |-> chain, dex |-> dex, entry_price |-> price,
   amount |-> amount, high_price |-> price, trailing_stop |-> RInt(0)]

\* (Decimal(str(exit_price)) / pos.entry_price - Decimal('1')) * Decimal('100')
Pnl(exit, entry) == RMul(RSub(RDiv(exit, entry), RInt(1)), RInt(100))

\* the history_entry dict of close_position
HistoryEntry(pos, exit) ==
  [token_address |-> pos.token_address, chain |-> pos.chain,
   entry_price |-> pos.entry_price, exit_price |-> exit, amount |-> pos.amount,
   pnl |-> Pnl(exit, pos.entry_price)]

\* portfolio_data.json does not exist
NoPortfolioFile == [exists |-> FALSE, positions |-> {}, history |-> <<>>]

\* _load_portfolio: the positions and the history after construction
load_portfolio(fs, file, t) ==
  LET cached == JSONFileCache_get(fs, PortfolioDataKey, MaxAge, t)
  IN  IF ~file.exists THEN [positions |-> {}, history |-> <<>>]
      ELSE IF cached # None
      THEN [positions |-> cached.positions, history |-> cached.history]
      ELSE [positions |-> file.positions, history |-> file.history]

\* _load_portfolio: the cache directory after construction
load_portfolio_files(fs, file, t) ==
  LET cached == JSONFileCache_get(fs, PortfolioDataKey, MaxAge, t)
      fs1    == JSONFileCache_get_files(fs, PortfolioDataKey, MaxAge, t)
  IN  IF ~file.exists THEN fs
      ELSE IF cached # None THEN fs1
      ELSE JSONFileCache_set(fs1, PortfolioDataKey,
                             [positions |-> file.positions, history |-> file.history], t)

\* _get_current_price(token_info) with the venue answering q: the cached price
\* if there is one, else the quote, which is stored in the cache. Each path
\* builds its log line with shorten_address, so for an address that is not an
\* EVM address every path ends in an exception.
get_current_price(fs, chain, tok, q, t) ==
  LET key    == PriceKey(chain, tok)
      cached == JSONFileCache_get(fs, key, MaxAge, t)
      fs1    == JSONFileCache_get_files(fs, key, MaxAge, t)
  IN  IF cached # None
      THEN [raised |-> shorten_address_raises(tok), price |-> cached,
            files |-> fs1, fetched |-> FALSE]
      ELSE IF q = RaiseOutcome
      THEN [raised |-> TRUE, price |-> None, files |-> fs1, fetched |-> TRUE]
      ELSE [raised |-> shorten_address_raises(tok), price |-> q,
            files |-> JSONFileCache_set(fs1, key, q, t), fetched |-> TRUE]

\* get_portfolio_value() called by _calculate_position_size, that is by a
\* thread that holds the lock: the cached value of the window, or 0 when the
\* balance cannot be read; with a balance it calls get_open_positions, which
\* waits for the lock its own thread holds.
get_portfolio_value_locked(fs, bal, t) ==
  LET key    == PortfolioValueKey(t)
      cached == JSONFileCache_get(fs, key, MaxAge, t)
      fs1    == JSONFileCache_get_files(fs, key, MaxAge, t)
  IN  IF cached # None THEN [blocked |-> FALSE, value |-> cached.num, files |-> fs1]
      ELSE IF bal = RaiseOutcome THEN [blocked |-> FALSE, value |-> RInt(0), files |-> fs1]
      ELSE [blocked |-> TRUE, value |-> RInt(0), files |-> fs1]

\* the orders in which a loop over self.positions can visit the tokens
Orders(ps) ==
  LET toks == {p.token_address : p \in ps}
  IN  {o \in [1..Cardinality(toks) -> toks] : \A i, j \in DOMAIN o : o[i] = o[j] => i = j}

\* The mutant of Marked: the mark follows the price down as well.
Marked_any_price(pos, price, cfg) ==
  [pos EXCEPT !.high_price = price,
              !.trailing_stop =
                IF cfg.trailing_stop_enabled
                THEN RMul(price, RSub(RInt(1), RDiv(cfg.trailing_stop_percent, RInt(100))))
                ELSE @]

\* the body of update_positions for one position whose price was refreshed
Marked(pos, price, cfg) ==
  IF RLe(price, pos.high_price) THEN pos
  ELSE [pos EXCEPT !.high_price = price,
                   !.trailing_stop =
                     IF cfg.trailing_stop_enabled
                     THEN RMul(price, RSub(RInt(1), RDiv(cfg.trailing_stop_percent, RInt(100))))
                     ELSE @]

\* the loop of update_positions from the positions in order on: it returns after
\* the last position, it is blocked in _save_portfolio after the first position
\* whose price was refreshed, or the log line of its handler raises
RECURSIVE update_loop(_, _, _, _, _, _)
update_loop(order, ps, fs, qf, cfg, t) ==
  IF order = <<>> THEN [status |-> "returned", positions |-> ps, files |-> fs]
  ELSE
    LET tok == Head(order)
        pos == PositionOf(ps, tok)
        r   == get_current_price(fs, pos.chain, tok, qf[tok], t)
    IN  IF r.raised \/ r.price = None
        THEN IF shorten_address_raises(tok)
             THEN [status |-> "raised", positions |-> ps, files |-> r.files]
             ELSE update_loop(Tail(order), ps, r.files, qf, cfg, t)
        ELSE [status |-> "blocked",
              positions |-> DictPut(ps, Marked(pos, r.price.num, cfg)),
              files |-> r.files]

\* the loop of get_open_positions, and the sum get_portfolio_value makes of its
\* results: a position whose price cannot be had is left out
RECURSIVE open_positions_loop(_, _, _, _, _, _)
open_positions_loop(order, ps, fs, qf, total, t) ==
  IF order = <<>> THEN [raised |-> FALSE, total |-> total, files |-> fs]
  ELSE
    LET tok == Head(order)
        pos == PositionOf(ps, tok)
        r   == get_current_price(fs, pos.chain, tok, qf[tok], t)
    IN  IF r.raised \/ r.price = None \/ pos.entry_price[1] = 0
        THEN IF shorten_address_raises(tok)
             THEN [raised |-> TRUE, total |-> total, files |-> r.files]
             ELSE open_positions_loop(Tail(order), ps, r.files, qf, total, t)
        ELSE open_positions_loop(Tail(order), ps, r.files, qf,
                                 RAdd(total, RMul(r.price.num, pos.amount)), t)

\* what a call saw and did, recorded when its body ran
NoSeen == [ran |-> FALSE]

Seen(ps, ps2, hist2, fs2, tok, memo, fetched, failed, appended) ==
  [ran |-> TRUE,
   before    |-> IF HasPosition(ps, tok) THEN PositionOf(ps, tok) ELSE None,
   after     |-> IF HasPosition(ps2, tok) THEN PositionOf(ps2, tok) ELSE None,
   memo      |-> memo,
   memoAfter |-> IF HasPosition(ps, tok)
                 THEN JSONFileCache_get(fs2, ClosePositionKey(PositionOf(ps, tok).chain, tok),
                                        MaxAge, now)
                 ELSE None,
   fetched   |-> fetched,
   failed    |-> failed,
   appended  |-> appended,
   histLen   |-> Len(hist2)]

\* an outcome of the body of a ledger operation: it returned a value, it raised,
\* or it is blocked for ever on the lock its own thread holds
Outcome(status, value, ps, hist, fs, seen) ==
  [status |-> status, value |-> value, positions |-> ps, history |-> hist,
   files |-> fs, seen |-> seen]

\* The mutant of AlreadyOpen: open_position does not look for an existing Position.
AlreadyOpen_ignored(ps, tok) == FALSE

\* token_address in self.positions, the guard of open_position
AlreadyOpen(ps, tok) == HasPosition(ps, tok)

\* open_position(token_info, tx_hash), inside `with self.lock`
open_position(ps, hist, fs, c, q, bal, cfg, t) ==
  LET tok  == c.token
      r    == get_current_price(fs, c.chain, tok, q, t)
      g    == get_portfolio_value_locked(r.files, bal, t)
      size == calculate_position_size(tok, g.value, r.price, NoVolatility, cfg)
      ps2  == DictPut(ps, Position(tok, c.chain, c.dex, r.price.num, size.value))
      seen(p, f, fetched) == Seen(ps, p, hist, f, tok, None, fetched, FALSE, None)
  IN  CASE AlreadyOpen(ps, tok) ->
             Outcome(IF shorten_address_raises(tok) THEN "raised" ELSE "returned",
                     "none", ps, hist, fs, seen(ps, fs, FALSE))
        [] r.raised -> Outcome("raised", "none", ps, hist, r.files, seen(ps, r.files, r.fetched))
        [] g.blocked -> Outcome("blocked", "none", ps, hist, g.files, seen(ps, g.files, r.fetched))
        [] size.raised \/ r.price = None ->
             Outcome("raised", "none", ps, hist, g.files, seen(ps, g.files, r.fetched))
        [] OTHER -> Outcome("blocked", "none", ps2, hist, g.files, seen(ps2, g.files, r.fetched))

\* The mutant of history_append: the history is set to the new entry alone.
history_append_alone(hist, entry) == <<entry>>

\* self.history.append(history_entry)
history_append(hist, entry) == Append(hist, entry)

\* close_position(token_address, exit_price), inside `with self.lock`
close_position(ps, hist, fs, tok, given, q, t) ==
  LET pos    == PositionOf(ps, tok)
      key    == ClosePositionKey(pos.chain, tok)
      cached == JSONFileCache_get(fs, key, MaxAge, t)
      fs1    == JSONFileCache_get_files(fs, key, MaxAge, t)
      fetch  == given = None \/ given.num[1] = 0
      r      == get_current_price(fs1, pos.chain, tok, q, t)
      exit   == IF fetch THEN r.price ELSE given
      fs2    == IF fetch THEN r.files ELSE fs1
      failed == (fetch /\ r.raised) \/ exit = None \/ pos.entry_price[1] = 0
      entry  == HistoryEntry(pos, exit.num)
      fsOk   == JSONFileCache_set(fs2, key, [status |-> "success", history_entry |-> entry], t)
      fsBad  == JSONFileCache_set(fs2, key, [status |-> "failed"], t)
      ps2    == DictDel(ps, tok)
      seen(p, h, f, fetched, bad, app) == Seen(ps, p, h, f, tok, cached, fetched, bad, app)
  IN  CASE ~HasPosition(ps, tok) ->
             Outcome(IF shorten_address_raises(tok) THEN "raised" ELSE "returned", "false",
                     ps, hist, fs, Seen(ps, ps, hist, fs, tok, None, FALSE, FALSE, None))
        [] cached # None /\ shorten_address_raises(tok) ->
             Outcome("raised", "none", ps, hist, fs1, seen(ps, hist, fs1, FALSE, FALSE, None))
        [] cached # None /\ ~shorten_address_raises(tok) ->
             IF cached.status = "success"
             THEN Outcome("blocked", "none", ps2, history_append(hist, cached.history_entry), fs1,
                          seen(ps2, history_append(hist, cached.history_entry), fs1, FALSE, FALSE,
                               cached.history_entry))
             ELSE Outcome("returned", "false", ps, hist, fs1,
                          seen(ps, hist, fs1, FALSE, FALSE, None))
        [] cached = None /\ failed ->
             IF shorten_address_raises(tok)
             THEN Outcome("raised", "none", ps, hist, fs2, seen(ps, hist, fs2, fetch, TRUE, None))
             ELSE Outcome("returned", "false", ps, hist, fsBad,
                          seen(ps, hist, fsBad, fetch, TRUE, None))
        [] OTHER ->
             Outcome("blocked", "none", ps2, history_append(hist, entry), fsOk,
                     seen(ps2, history_append(hist, entry), fsOk, fetch, FALSE, entry))

\* update_positions(), inside `with self.lock`
update_positions(ps, hist, fs, order, qf, cfg, t) ==
  LET u == update_loop(order, ps, fs, qf, cfg, t)
  IN  Outcome(u.status, "none", u.positions, hist, u.files, NoSeen)

\* liquidate_all(), inside `with self.lock`: close_position waits for the lock
liquidate_all(ps, hist, fs) ==
  Outcome(IF ps = {} THEN "returned" ELSE "blocked", "none", ps, hist, fs, NoSeen)

\* get_portfolio_value() after the balance was read: get_open_positions under
\* the lock, the sum, and the value stored under the key of the call's window
get_portfolio_value(ps, hist, fs, order, qf, bal, key, t) ==
  LET o == open_positions_loop(order, ps, fs, qf, bal.num, t)
  IN  IF o.raised
      THEN Outcome("returned", "number", ps, hist, o.files, [ran |-> FALSE, value |-> Num(RInt(0))])
      ELSE Outcome("returned", "number", ps, hist,
                   JSONFileCache_set(o.files, key, Num(o.total), t),
                   [ran |-> FALSE, value |-> Num(o.total)])

\* settings['trading']['portfolio'] with its defaults, and portfolio_data.json
DefaultPortfolio ==
  [file |-> NoPortfolioFile, restarts |-> 0, calls |-> 0,
   max_risk_per_trade |-> RInt(1), min_position_size |-> RInt(100),
   max_position_size |-> RInt(10000),
   trailing_stop_enabled |-> FALSE, trailing_stop_percent |-> RInt(10)]

\* a thread that is in no ledger operation
NoPmCall ==
  [pc |-> "idle", op |-> "none", token |-> "", given |-> None, bal |-> None,
   key |-> <<>>, result |-> "none", seen |-> NoSeen]

-----------------------------------------------------------------------------
(* core/auto_exit.py: AutoExit *)

\* A position handed to _evaluate_position is the dict get_open_positions builds
\* from a Position (portfolio_manager.py 376-389): the floats of its Decimals,
\* exact rationals here.

\* a strategy of settings['trading']['auto_exit']['strategies']
Strategy(type, target, duration, trail_percent) ==
  [type |-> type, target |-> target, duration |-> duration,
   trail_percent |-> trail_percent]

\* current_price * (1 - trail_amount / 100)
current_trail(price, trail_percent) ==
  RMul(price, RSub(RInt(1), RDiv(trail_percent, RInt(100))))

\* The mutant of trailing_triggers: a positive floor is enough.
trailing_triggers_positive(price, trail_percent, stop) ==
  ~RLe(current_trail(price, trail_percent), RInt(0))

\* `current_trail > position.get('trailing_stop', current_price)`
trailing_triggers(price, trail_percent, stop) ==
  ~RLe(current_trail(price, trail_percent), stop)

\* (current_price / position['entry_price'] - 1) * 100
profit_pct(price, entry) == RMul(RSub(RDiv(price, entry), RInt(1)), RInt(100))

\* _check_strategy(strategy, position, current_price, profit_pct) at time t
check_strategy(strategy, position, price, profit, t) ==
  CASE strategy.type = "percentage" -> RLe(strategy.target, profit)
    [] strategy.type = "time" ->
         /\ t - position.entry_time >= strategy.duration
         /\ ~RLe(profit, RInt(0))
    [] strategy.type = "trailing" ->
         trailing_triggers(price, strategy.trail_percent, position.trailing_stop)
    [] OTHER -> FALSE

\* the dict get_open_positions builds for a Position (entry_time: the positions
\* of the model were opened at the first instant)
OpenPositionDict(pos) ==
  [token_address |-> pos.token_address, chain |-> pos.chain, dex |-> pos.dex,
   entry_price |-> pos.entry_price, amount |-> pos.amount,
   high_price |-> pos.high_price, trailing_stop |-> pos.trailing_stop,
   entry_time |-> Instants[1]]

\* The mutant of FirstMatch: the last matching strategy wins.
FirstMatch_last(strategies, position, price, profit, t) ==
  LET hits == {i \in 1..Len(strategies) :
                 check_strategy(strategies[i], position, price, profit, t)}
  IN  IF hits = {} THEN 0 ELSE CHOOSE i \in hits : \A j \in hits : j <= i

\* `for strategy in self.strategies: if self._check_strategy(...)`: the index of
\* the first strategy that matches, 0 when none does
FirstMatch(strategies, position, price, profit, t) ==
  LET hits == {i \in 1..Len(strategies) :
                 check_strategy(strategies[i], position, price, profit, t)}
  IN  IF hits = {} THEN 0 ELSE CHOOSE i \in hits : \A j \in hits : i <= j

\* (position['high_price'] / current_price - 1) * 100
price_drop(high, price) == RMul(RSub(RDiv(high, price), RInt(1)), RInt(100))

\* `profit_pct <= -abs(self.global_stop_loss)`
stop_loss_hit(profit, global_stop_loss) ==
  RLe(profit, RSub(RInt(0), <<Abs(global_stop_loss[1]), global_stop_loss[2]>>))

\* AutoExit._get_current_price(position): the same steps as the ledger's
\* _get_current_price, on the same cache key
exit_get_current_price(fs, chain, tok, q, t) == get_current_price(fs, chain, tok, q, t)

\* get_open_positions(), inside `with self.lock`: the dicts of the positions
\* whose price can be had, in the order of the dict; the log line of its handler
\* raises for an address that is not an EVM address
RECURSIVE get_open_positions(_, _, _, _, _, _)
get_open_positions(order, ps, fs, qf, results, t) ==
  IF order = <<>> THEN [raised |-> FALSE, results |-> results, files |-> fs]
  ELSE
    LET tok == Head(order)
        pos == PositionOf(ps, tok)
        r   == get_current_price(fs, pos.chain, tok, qf[tok], t)
    IN  IF r.raised \/ r.price = None \/ pos.entry_price[1] = 0
        THEN IF shorten_address_raises(tok)
             THEN [raised |-> TRUE, results |-> <<>>, files |-> r.files]
             ELSE get_open_positions(Tail(order), ps, r.files, qf, results, t)
        ELSE get_open_positions(Tail(order), ps, r.files, qf,
                                Append(results, OpenPositionDict(pos)), t)

\* what _exit_ethereum or _exit_solana gives: the swap raised or was not
\* confirmed (an exception), or it was confirmed and the venue then quoted the
\* exit price, which get_quote can fail to give (None)
ExitOutcomes ==
  {RaiseOutcome} \cup {[exit_price |-> q] : q \in {None, Num(RInt(1)), Num(RInt(3))}}

\* the results memoized under the exit key
ExitSuccess(profit) == [status |-> "success", profit |-> profit]
ExitFailed == [status |-> "failed"]

\* the threads that run exits: monitor_positions (main.py 246) and the SELL
\* button of the dashboard (dashboard.py 231-234), which builds an AutoExit of
\* its own and calls _execute_exit on a position it makes up
ExitThreads == {"exit", "dashboard"}

\* a thread that is in no _evaluate_position and no _execute_exit. rug and stop
\* record what the two tests gave, index the strategy that matched, attempts the
\* _execute_exit calls, dispatches the swaps sent, swapped a confirmed swap,
\* closed what close_position returned
NoExitCall ==
  [pc |-> "idle", position |-> None, entry |-> None, price |-> None,
   emergency |-> FALSE, trigger |-> "none", index |-> 0, rug |-> "none",
   stop |-> "none", attempts |-> 0, dispatches |-> 0, swapped |-> FALSE,
   closed |-> "none", leaving |-> FALSE, ended |-> FALSE]

\* no AutoExit at work
NoExits == [started |-> FALSE]

-----------------------------------------------------------------------------
(* The parts of the state a specification does not use stay as constructed *)

AntiRugIdle ==
  /\ settings = [ venues           |-> {<<"ethereum", "uniswapv3">>},
                  anti_rug_enabled |-> TRUE,
                  enabled          |-> [n \in CheckNames |-> TRUE],
                  honeypot_api_key |-> FALSE,
                  explorer_api_key |-> FALSE,
                  lp_token_address |-> FALSE ]
  /\ ar = [th \in Threads |-> NoRun]

SniperIdle ==
  /\ pending_txs = [tok \in Tokens |-> NoPending]
  /\ blacklist = {}
  /\ sn = [th \in Threads |-> NoCall]

LedgerIdle ==
  /\ positions = {}
  /\ history = <<>>
  /\ lock = "free"
  /\ pm = [th \in Threads |-> NoPmCall]
  /\ portfolio = DefaultPortfolio

SizingIdle == sizing = [called |-> FALSE]

ExitIdle == exits = NoExits

TrailIdle == trail = [started |-> FALSE]

SolExitIdle == solx = [calls |-> 0, pc |-> "idle"]

SolSnipeIdle == rsn = [calls |-> 0, pc |-> "idle"]

\* no get and no set in progress, nothing written
NoGetCall == [pc |-> "idle", gets |-> 0]
NoSetCall == [pc |-> "idle", sets |-> 0]

IoIdle == io = [reader |-> NoGetCall, writer |-> NoSetCall]

PathIdle == SolExitIdle /\ SolSnipeIdle /\ IoIdle

-----------------------------------------------------------------------------
(* The cache used on its own: get and set of one JSONFileCache(max_age=300) *)

\* values handed to set(): a result dict, a JSON true, a None and a Decimal
ProbeValues ==
  { [status |-> "success"], [bool |-> TRUE], [null |-> TRUE], [decimal |-> TRUE] }

NoGet == [called |-> FALSE]

\* everything but the clock, the cache directory and the cache spec's own variables
cacheRest == <<antiRugVars, sniperVars, ledgerVars, sizing, exitVars>>

CacheIdle ==
  /\ lastGet = NoGet
  /\ purged = {}
  /\ written = [k \in ProbeKeys |-> None]

CacheInit ==
  /\ clock = 1
  /\ files = [k \in CacheKeys |-> NoFile]
  /\ CacheIdle
  /\ AntiRugIdle
  /\ SniperIdle
  /\ LedgerIdle
  /\ SizingIdle
  /\ ExitIdle
  /\ PathIdle
  /\ TrailIdle

\* cache.get(key)
CacheGetOp(key) ==
  /\ lastGet' = [ called       |-> TRUE,
                  key          |-> key,
                  result       |-> JSONFileCache_get(files, key, MaxAge, now),
                  existed      |-> files[key].exists,
                  age          |-> IF files[key].exists THEN now - files[key].mtime ELSE 0,
                  stored       |-> written[key],
                  purgedBefore |-> key \in purged ]
  /\ files' = JSONFileCache_get_files(files, key, MaxAge, now)
  /\ purged' = IF files[key].exists /\ IsExpired(files[key], MaxAge, now)
               THEN purged \cup {key} ELSE purged
  /\ UNCHANGED <<clock, written, cacheRest>>

\* cache.set(key, value)
CacheSetOp(key, value) ==
  /\ files' = JSONFileCache_set(files, key, value, now)
  /\ written' = [written EXCEPT ![key] = value]
  /\ purged' = purged \ {key}
  /\ lastGet' = NoGet
  /\ UNCHANGED <<clock, cacheRest>>

CacheTick == Tick /\ UNCHANGED <<files, cacheVars, cacheRest>>

CacheNext ==
  \/ \E key \in ProbeKeys : CacheGetOp(key)
  \/ \E key \in ProbeKeys, value \in ProbeValues : CacheSetOp(key, value)
  \/ CacheTick

SpecCache == CacheInit /\ [][CacheNext]_vars

\* C7: get(key) returns the stored value only while now - write time <= max_age;
\* on an entry older than max_age it returns None and removes the file, and a
\* later get returns None as well until the key is set again.
C7_GetHonoursMaxAge ==
  lastGet.called =>
    /\ lastGet.result # None =>
          /\ lastGet.existed
          /\ lastGet.age <= MaxAge
          /\ lastGet.result = lastGet.stored
    /\ (lastGet.existed /\ lastGet.age > MaxAge) =>
          /\ lastGet.result = None
          /\ ~files[lastGet.key].exists
    /\ lastGet.purgedBefore => lastGet.result = None

\* a get that found a file older than max_age, and a later get of the same key
C7_Witness ==
  /\ lastGet.called
  /\ lastGet.purgedBefore
  /\ lastGet.stored = [status |-> "success"]

\* a get that returned the value written less than max_age ago
C7_WitnessFresh ==
  /\ lastGet.called
  /\ lastGet.result = [status |-> "success"]
  /\ lastGet.age = MaxAge

-----------------------------------------------------------------------------
(* AntiRugChecker on its own: run_all_checks under every configuration *)

\* the number of run_all_checks calls one thread makes in a run of the model
MaxRuns == 2

\* the threads that construct a checker: Sniper._snipe_ethereum (scanner) and
\* AutoExit._detect_rug_pull (exit)
CheckerThreads == {"scanner"}

\* everything but the clock, the cache directory and the checker's variables
antiRugRest == <<cacheVars, sniperVars, ledgerVars, sizing, exitVars>>

AntiRugInit ==
  /\ clock = 1
  /\ files = [k \in CacheKeys |-> NoFile]
  /\ settings \in {st \in AntiRugSettings :
                     /\ st.venues = {<<"ethereum", "uniswapv3">>}
                     /\ st.anti_rug_enabled
                     /\ st.honeypot_api_key = st.explorer_api_key
                     /\ st.explorer_api_key = st.lp_token_address}
  /\ ar = [th \in Threads |-> NoRun]
  /\ CacheIdle
  /\ SniperIdle
  /\ LedgerIdle
  /\ SizingIdle
  /\ ExitIdle
  /\ PathIdle
  /\ TrailIdle

\* what is kept of the run a thread made before the one in progress: its token,
\* the cache key a check memoizes its outcome under (anti_rug.py 53, 159, 219,
\* 316, 410; the LP token address of the last key is the one of the settings);
\* check_honeypot never gets as far as its cache
MemoKey(name, tok) ==
  CASE name = "check_contract_verification" -> <<"contract_verification", tok>>
    [] name = "check_renounced"             -> <<"renounced", tok>>
    [] name = "check_dev_holding"           -> <<"dev_holding", tok>>
    [] name = "check_holder_count"          -> <<"holder_count", tok>>
    [] OTHER                                -> <<"liquidity_lock", tok>>

\* its chain, when it was entered, what it returned, and whether every outcome
\* memoized for the token was memoized by that run (none is older than it)
PreviousRun(run, fs) ==
  [token |-> run.token, chain |-> run.chain, started |-> run.started,
   verdict |-> run.verdict,
   recorded_all |-> \A name \in CheckNames \ {"check_honeypot"} :
                      fs[MemoKey(name, run.token)].exists =>
                        fs[MemoKey(name, run.token)].mtime >= run.started]

\* AntiRugChecker(w3, token_address, chain, settings).run_all_checks() is entered
ARStart(th, tok, chain) ==
  /\ ~ar[th].active
  /\ ar[th].runs < MaxRuns
  /\ ar' = [ar EXCEPT ![th] = [NewRun(tok, chain) EXCEPT
                                  !.runs = ar[th].runs + 1,
                                  !.started = now,
                                  !.prev = IF ar[th].runs = 0 THEN None
                                           ELSE PreviousRun(ar[th], files)]]
  /\ UNCHANGED <<clock, files, settings, antiRugRest>>

\* one turn of the loop of run_all_checks
ARStep(th, net) ==
  /\ run_all_checks_step(th, net)
  /\ UNCHANGED <<clock, settings, antiRugRest>>

\* time passes between two runs (a run is short against max_age)
ARTick ==
  /\ \A th \in Threads : ~ar[th].active
  /\ Tick
  /\ UNCHANGED <<files, antiRugVars, antiRugRest>>

AntiRugNext ==
  \/ \E th \in CheckerThreads, chain \in CheckerChains : ARStart(th, "0xA", chain)
  \/ \E th \in CheckerThreads, net \in NetOutcomes : ARStep(th, net)
  \/ ARTick

SpecAntiRug == AntiRugInit /\ [][AntiRugNext]_vars

\* the checks the configuration enables
EnabledChecks == {n \in CheckNames : settings.enabled[n]}

\* C1: run_all_checks returns false exactly when an enabled check returned
\* false; a check the settings disable is never invoked, and a run that returns
\* true has invoked every enabled check and seen none of them fail. (A run that a
\* check left by an exception returns nothing.)
C1_VerdictIffEnabledCheckFailed ==
  \A th \in Threads :
    /\ ar[th].invoked \subseteq EnabledChecks
    /\ ar[th].failed \subseteq ar[th].invoked
    /\ (ar[th].verdict = "false") <=> (ar[th].failed # {})
    /\ (ar[th].verdict = "true") =>
          /\ ar[th].invoked = EnabledChecks
          /\ ar[th].failed = {}
    /\ (~ar[th].active /\ ar[th].runs > 0) =>
          ar[th].verdict \in {"true", "false", "raised"}

\* a run with the first check disabled that a later enabled check failed
C1_Witness ==
  \E th \in Threads :
    /\ ar[th].verdict = "false"
    /\ ~settings.enabled["check_contract_verification"]
    /\ ~settings.enabled["check_honeypot"]
    /\ ar[th].failed = {"check_dev_holding"}
    /\ ar[th].invoked = {"check_renounced", "check_dev_holding"}

-----------------------------------------------------------------------------
(* The Sniper shared by the scanner thread and the dashboard thread *)

\* main.py:219 (_run_token_scanner) and interface/dashboard.py:218 call execute
SniperThreads == {"scanner", "dashboard"}

\* the configurations of the anti-rug stage the Sniper runs under
SniperSettings ==
  {st \in AntiRugSettings :
     /\ st.anti_rug_enabled
     /\ st.enabled = [n \in CheckNames |-> n = "check_contract_verification"]
     /\ ~st.honeypot_api_key /\ ~st.explorer_api_key /\ ~st.lp_token_address}

\* the candidates handed to execute, offered on the configured venues
SniperCandidates == Candidates

SniperInit ==
  /\ clock = 1
  /\ files = [k \in CacheKeys |-> NoFile]
  /\ settings \in SniperSettings
  /\ ar = [th \in Threads |-> NoRun]
  /\ SniperIdle
  /\ CacheIdle
  /\ LedgerIdle
  /\ SizingIdle
  /\ ExitIdle
  /\ PathIdle
  /\ TrailIdle

\* the instants (indexes of Instants) the Sniper is observed at: 0 s, 120 s (a
\* pending entry written at 0 is stale, a memo written at 0 is not) and 301 s
\* (a memo written at 0 has expired)
SniperInstants == {1, 3, 5}

SnTick ==
  /\ \E c \in SniperInstants : c > clock /\ clock' = c
  /\ UNCHANGED <<files, antiRugVars, sniperVars, sniperRest>>

\* _snipe_solana, _execute_jupiter_fallback and _retry_solana_snipe are not steps
\* of this specification (they are those of SpecSolSnipe): execute builds its
\* "Attempting snipe" log line with shorten_address before it branches on the
\* chain, and for a Solana address that raises.
SniperNext ==
  \/ \E th \in SniperThreads, c \in SniperCandidates : SnCall(th, c)
  \/ \E th \in SniperThreads : SnCacheGet(th)
  \/ \E th \in SniperThreads : SnBlacklist(th)
  \/ \E th \in SniperThreads : SnPending(th)
  \/ \E th \in SniperThreads : SnClearStale(th)
  \/ \E th \in SniperThreads : SnRegister(th)
  \/ \E th \in SniperThreads, ctor \in {"ok", "raise"} : SnDispatch(th, ctor)
  \/ \E th \in SniperThreads, net \in NetOutcomes : SnAntiRugStep(th, net)
  \/ \E th \in SniperThreads : SnAntiRugVerdict(th)
  \/ \E th \in SniperThreads, b \in {"enough", "low", "raise"} : SnBalance(th, b)
  \/ \E th \in SniperThreads, g \in {"ok", "fail"} : SnGas(th, g)
  \/ \E th \in SniperThreads, sw \in {"confirmed", "failed", "raise"} :
        SnSwapUniswap(th, sw)
  \/ \E th \in SniperThreads : SnNotResult(th)
  \/ \E th \in SniperThreads : SnExcept(th)
  \/ \E th \in SniperThreads : SnFinallyCheck(th)
  \/ \E th \in SniperThreads : SnFinallyDel(th)
  \/ \E th \in SniperThreads : SnReturned(th)
  \/ SnTick

SpecSniper == SniperInit /\ [][SniperNext]_vars

\* C9: a call of execute that registered a pending entry has removed it by the
\* time the call ends, however it ends: no entry of pending_txs belongs to a
\* thread that is not inside execute.
C9_PendingRemovedAtExit ==
  \A tok \in Tokens :
    pending_txs[tok].present =>
      sn[pending_txs[tok].owner].pc \notin {"idle", "returned"}

\* a call that registered a pending entry and has ended in failure, with no
\* entry left for its token
C9_Witness ==
  \E th \in SniperThreads :
    /\ sn[th].pc = "returned"
    /\ sn[th].registered
    /\ sn[th].cand.chain = "polygon"
    /\ sn[th].result = "false"
    /\ \A tok \in Tokens : ~pending_txs[tok].present

\* the distance in seconds between the starts of two calls
StartsApart(t1, t2) ==
  IF sn[t1].start >= sn[t2].start THEN sn[t1].start - sn[t2].start
  ELSE sn[t2].start - sn[t1].start

\* C2: of two execute calls for the same (chain, dex, token) that start within
\* 120 s of each other, overlapping in different threads included, at most one
\* proceeds to swap dispatch.
C2_AtMostOneDispatch ==
  \A t1, t2 \in SniperThreads :
    ( /\ t1 # t2
      /\ sn[t1].pc # "idle" /\ sn[t2].pc # "idle"
      /\ sn[t1].cand = sn[t2].cand
      /\ StartsApart(t1, t2) < PendingWindow )
    => ~(sn[t1].dispatched /\ sn[t2].dispatched)

\* C10: a call of execute for a token that is on the blacklist dispatches no
\* swap, and returns false unless an unexpired memoized success is stored under
\* the candidate's key, in which case it returns that memoized true.
C10_BlacklistedNeverDispatched ==
  \A th \in SniperThreads :
    sn[th].blAtCall =>
      /\ ~sn[th].dispatched
      /\ ~sn[th].registered
      /\ sn[th].pc = "returned" =>
           sn[th].result = IF sn[th].memo = "success" THEN "true" ELSE "false"

\* a blacklisted token with nothing memoized under the candidate's key, rejected
\* by the blacklist check
C10_Witness ==
  \E th \in SniperThreads :
    /\ sn[th].pc = "returned"
    /\ sn[th].blAtCall
    /\ sn[th].memo = "none"
    /\ sn[th].result = "false"

\* C10 as stated: for a blacklisted token execute returns false and dispatches
\* no swap, whatever the memoization store holds.
C10_BlacklistedReturnsFalse ==
  \A th \in SniperThreads :
    (sn[th].pc = "returned" /\ sn[th].blAtCall) =>
      /\ sn[th].result = "false"
      /\ ~sn[th].dispatched

-----------------------------------------------------------------------------
(* Position sizing on its own: _calculate_position_size over its inputs *)

\* what get_portfolio_value() returns: 0 (the valuation failed, or the wallet
\* is empty), a value whose raw size falls inside the clamp, and one above it
SizePortfolioValues == {RInt(0), RInt(50000), RInt(2000000)}

\* entry prices, the degenerate ones (a failed quote, zero, negative) included
SizePrices == {None} \cup {Num(r) : r \in {RInt(0 - 1), RInt(0), <<1, 2>>, RInt(1), RInt(4)}}

\* volatility hints: absent, the one that zeroes the adjustment, small and large
SizeVolatilities ==
  {NoVolatility} \cup {[value |-> v] : v \in {<<0 - 1, 2>>, RInt(0), <<1, 2>>, RInt(2)}}

\* settings['trading']['portfolio']: the defaults (100, 10000), a degenerate
\* interval, and a configuration with min_position_size above max_position_size
SizeConfigs ==
  {[max_risk_per_trade |-> RInt(1), min_position_size |-> RInt(b[1]),
    max_position_size |-> RInt(b[2])] : b \in {<<100, 10000>>, <<100, 100>>, <<10000, 100>>}}

sizeRest == <<files, cacheVars, antiRugVars, sniperVars, ledgerVars, exitVars>>

SizeInit ==
  /\ clock = 1
  /\ files = [k \in CacheKeys |-> NoFile]
  /\ CacheIdle
  /\ AntiRugIdle
  /\ SniperIdle
  /\ LedgerIdle
  /\ SizingIdle
  /\ ExitIdle
  /\ PathIdle
  /\ TrailIdle

\* one call of _calculate_position_size
SizeCall(tok, pv, price, vol, cfg) ==
  /\ sizing' = [called |-> TRUE, token |-> tok, portfolio_value |-> pv,
                entry_price |-> price, volatility |-> vol, cfg |-> cfg,
                out |-> calculate_position_size(tok, pv, price, vol, cfg)]
  /\ UNCHANGED <<clock, sizeRest>>

SizeTick == Tick /\ UNCHANGED <<sizing, sizeRest>>

SizeNext ==
  \/ \E tok \in Tokens, pv \in SizePortfolioValues, price \in SizePrices,
        vol \in SizeVolatilities, cfg \in SizeConfigs :
        SizeCall(tok, pv, price, vol, cfg)
  \/ SizeTick

SpecSize == SizeInit /\ [][SizeNext]_vars

\* the call returned a value (it did not raise)
SizeReturned == sizing.called /\ ~sizing.out.raised

\* C4: whenever min_position_size <= max_position_size, the value returned by
\* _calculate_position_size lies in [min_position_size, max_position_size],
\* for every portfolio value, entry price and volatility hint, the fallback
\* after a failed computation included.
C4_SizeWithinConfiguredBounds ==
  (SizeReturned /\ RLe(sizing.cfg.min_position_size, sizing.cfg.max_position_size)) =>
    /\ RLe(sizing.cfg.min_position_size, sizing.out.value)
    /\ RLe(sizing.out.value, sizing.cfg.max_position_size)

\* a computation that failed on a zero price and fell back to min_position_size
C4_Witness ==
  /\ SizeReturned
  /\ sizing.entry_price = Num(RInt(0))
  /\ sizing.portfolio_value = RInt(50000)
  /\ sizing.cfg.max_position_size = RInt(10000)
  /\ sizing.out.value = RInt(100)

\* C4 as stated: for every configured (min_position_size, max_position_size)
\* the value returned lies in [min_position_size, max_position_size].
C4_SizeWithinBounds ==
  SizeReturned =>
    /\ RLe(sizing.cfg.min_position_size, sizing.out.value)
    /\ RLe(sizing.out.value, sizing.cfg.max_position_size)

-----------------------------------------------------------------------------
(* The ledger: the threads of main.py calling PortfolioManager *)

\* ledger calls made in one run, all threads together
MaxLedgerCalls == 2

\* restarts of the process in one run
MaxRestarts == 1

ledgerRest == <<cacheVars, antiRugVars, sniperVars, sizing, exitVars>>

\* the positions portfolio_data.json can hold at start
FilePositions ==
  {Position(tok, VenueOf(tok).chain, VenueOf(tok).dex, RInt(2), RInt(100)) : tok \in Tokens}

\* the histories portfolio_data.json can hold at start: none, or one closed trade
FileHistories ==
  {<<>>, <<HistoryEntry(Position("0xA", "ethereum", "uniswapv3", RInt(1), RInt(100)), RInt(3))>>}

LedgerPortfolios ==
  {[DefaultPortfolio EXCEPT !.file = [exists |-> TRUE, positions |-> ps, history |-> hs],
                            !.trailing_stop_enabled = e] :
     ps \in SUBSET FilePositions, hs \in FileHistories, e \in BOOLEAN}

\* PortfolioManager.__init__ at time 0: _load_portfolio has run
LedgerInit ==
  /\ clock = 1
  /\ portfolio \in LedgerPortfolios
  /\ files = load_portfolio_files([k \in CacheKeys |-> NoFile], portfolio.file, now)
  /\ positions = load_portfolio([k \in CacheKeys |-> NoFile], portfolio.file, now).positions
  /\ history = load_portfolio([k \in CacheKeys |-> NoFile], portfolio.file, now).history
  /\ lock = "free"
  /\ pm = [th \in Threads |-> NoPmCall]
  /\ CacheIdle
  /\ AntiRugIdle
  /\ SniperIdle
  /\ SizingIdle
  /\ ExitIdle
  /\ PathIdle
  /\ TrailIdle

\* the operations each thread calls: main.py:229 (scanner), auto_exit.py:261
\* (exit), main.py:282 and main.py:471 (main)
ThreadOps(th) ==
  CASE th = "scanner" -> {"open_position"}
    [] th = "exit" -> {"close_position"}
    [] OTHER -> {"update_positions", "liquidate_all"}

\* a thread calls open_position, close_position, update_positions or
\* liquidate_all and arrives at `with self.lock`
PmCall(th, op, tok, given) ==
  /\ pm[th].pc = "idle"
  /\ portfolio.calls < MaxLedgerCalls
  /\ op \in ThreadOps(th)
  /\ op # "close_position" => given = None
  /\ op \in {"update_positions", "liquidate_all"} => tok = "0xA"
  /\ pm' = [pm EXCEPT ![th] = [NoPmCall EXCEPT !.pc = "acquire", !.op = op, !.token = tok,
                                               !.given = given]]
  /\ portfolio' = [portfolio EXCEPT !.calls = @ + 1]
  /\ UNCHANGED <<clock, files, positions, history, lock, ledgerRest>>

\* get_portfolio_value() called from the main loop (main.py:319), up to
\* get_open_positions: a cached value or a failed balance read ends the call
GpvCall(th, bal) ==
  LET key    == PortfolioValueKey(now)
      cached == JSONFileCache_get(files, key, MaxAge, now)
      call   == [NoPmCall EXCEPT !.op = "get_portfolio_value", !.key = key, !.bal = bal]
  IN  /\ pm[th].pc = "idle"
      /\ portfolio.calls < MaxLedgerCalls
      /\ files' = JSONFileCache_get_files(files, key, MaxAge, now)
      /\ pm' = [pm EXCEPT ![th] =
                  IF cached # None
                  THEN [call EXCEPT !.pc = "returned", !.result = "number",
                                    !.seen = [ran |-> FALSE, value |-> cached]]
                  ELSE IF bal = RaiseOutcome
                  THEN [call EXCEPT !.pc = "returned", !.result = "number",
                                    !.seen = [ran |-> FALSE, value |-> Num(RInt(0))]]
                  ELSE [call EXCEPT !.pc = "acquire"]]
      /\ portfolio' = [portfolio EXCEPT !.calls = @ + 1]
      /\ UNCHANGED <<clock, positions, history, lock, ledgerRest>>

\* The mutant of AtLock: the operation does not wait for the lock.
AtLock_unlocked(th, op) ==
  /\ pm[th].pc = "acquire"
  /\ pm[th].op = op

\* the thread is at `with self.lock` of the operation and the lock is free
AtLock(th, op) ==
  /\ pm[th].pc = "acquire"
  /\ pm[th].op = op
  /\ lock = "free"

\* the body of an operation runs from the acquisition of the lock to its
\* return, to its exception, or to the nested acquisition that never returns
PmBody(th, out) ==
  /\ positions' = out.positions
  /\ history' = out.history
  /\ files' = out.files
  /\ lock' = IF out.status = "blocked" THEN th ELSE lock
  /\ pm' = [pm EXCEPT ![th] = [@ EXCEPT !.pc = out.status, !.result = out.value,
                                        !.seen = out.seen]]
  /\ UNCHANGED <<clock, portfolio, ledgerRest>>

CandidateOf(tok) == [token |-> tok, chain |-> VenueOf(tok).chain, dex |-> VenueOf(tok).dex]

OpenBody(th) ==
  /\ AtLock(th, "open_position")
  /\ \E q \in QuoteOutcomes, bal \in BalanceOutcomes :
       PmBody(th, open_position(positions, history, files, CandidateOf(pm[th].token), q, bal,
                                portfolio, now))

CloseBody(th) ==
  /\ AtLock(th, "close_position")
  /\ \E q \in QuoteOutcomes :
       PmBody(th, close_position(positions, history, files, pm[th].token, pm[th].given, q, now))

UpdateBody(th) ==
  /\ AtLock(th, "update_positions")
  /\ \E order \in Orders(positions), qf \in [Tokens -> QuoteOutcomes] :
       PmBody(th, update_positions(positions, history, files, order, qf, portfolio, now))

LiquidateBody(th) ==
  /\ AtLock(th, "liquidate_all")
  /\ PmBody(th, liquidate_all(positions, history, files))

GpvBody(th) ==
  /\ AtLock(th, "get_portfolio_value")
  /\ \E order \in Orders(positions), qf \in [Tokens -> QuoteOutcomes] :
       PmBody(th, get_portfolio_value(positions, history, files, order, qf, pm[th].bal,
                                      pm[th].key, now))

\* the call is over: the thread goes back to its loop
PmReturned(th) ==
  /\ pm[th].pc \in {"returned", "raised"}
  /\ pm' = [pm EXCEPT ![th] = NoPmCall]
  /\ UNCHANGED <<clock, files, positions, history, lock, portfolio, ledgerRest>>

\* a thread is stuck and the process is stopped and started again: a new
\* PortfolioManager is constructed from portfolio_data.json, the cache
\* directory is the same
Restart ==
  /\ portfolio.restarts < MaxRestarts
  /\ lock # "free"
  /\ positions' = load_portfolio(files, portfolio.file, now).positions
  /\ history' = load_portfolio(files, portfolio.file, now).history
  /\ files' = load_portfolio_files(files, portfolio.file, now)
  /\ lock' = "free"
  /\ pm' = [th \in Threads |-> NoPmCall]
  /\ portfolio' = [portfolio EXCEPT !.restarts = @ + 1]
  /\ UNCHANGED <<clock, ledgerRest>>

\* the instants of the ledger runs: 0, 300 (an entry of time 0 is still valid) and 301
LedgerInstants == {1, 4, 5}

LedgerTick ==
  /\ \E c \in LedgerInstants : c > clock /\ clock' = c
  /\ UNCHANGED <<files, ledgerVars, ledgerRest>>

LedgerNext ==
  \/ \E th \in LedgerThreads, tok \in Tokens, given \in ExitPrices :
        \E op \in ThreadOps(th) : PmCall(th, op, tok, given)
  \/ \E bal \in BalanceOutcomes : GpvCall("main", bal)
  \/ \E th \in LedgerThreads : OpenBody(th)
  \/ \E th \in LedgerThreads : CloseBody(th)
  \/ \E th \in LedgerThreads : UpdateBody(th)
  \/ \E th \in LedgerThreads : LiquidateBody(th)
  \/ \E th \in LedgerThreads : GpvBody(th)
  \/ \E th \in LedgerThreads : PmReturned(th)
  \/ Restart
  \/ LedgerTick

SpecLedger == LedgerInit /\ [][LedgerNext]_vars

\* the close_position call of a thread whose body has run
ClosedBy(th) == pm[th].op = "close_position" /\ pm[th].seen.ran

\* C3: the ledger holds at most one open Position per token address, and an
\* open_position on a token that already has an open Position leaves that
\* Position (entry price, amount, high-water price, trailing stop) unchanged,
\* whatever open, close, update and liquidate calls run around it.
C3_OnePositionPerToken ==
  /\ \A p, q \in positions : p.token_address = q.token_address => p = q
  /\ \A th \in LedgerThreads :
       (pm[th].op = "open_position" /\ pm[th].seen.ran /\ pm[th].seen.before # None) =>
         pm[th].seen.after = pm[th].seen.before

\* an open_position call on a token whose Position was loaded at start has returned
C3_Witness ==
  \E th \in LedgerThreads :
    /\ pm[th].op = "open_position"
    /\ pm[th].pc = "returned"
    /\ pm[th].seen.ran
    /\ pm[th].seen.before # None
    /\ pm[th].seen.before \in positions

\* C5: a close_position(token, exit_price=E) call that closes the Position (the
\* path that ends in `return True`) has appended a ClosedTrade with
\* pnl = (E / P - 1) * 100, P the entry price of the Position, and the Position
\* is absent afterwards, after any earlier opens and closes of the token.
C5_CloseAppendsPnlOfExitPrice ==
  \A th \in LedgerThreads :
    (/\ ClosedBy(th)
     /\ pm[th].given # None
     /\ pm[th].seen.appended # None) =>
      /\ pm[th].seen.appended.pnl = Pnl(pm[th].given.num, pm[th].seen.before.entry_price)
      /\ pm[th].seen.after = None

\* C6: with a memoized success for the Position, close_position appends exactly
\* the stored entry, removes the Position and returns true, without fetching a
\* price.
C6_MemoizedSuccessReplayed ==
  \A th \in LedgerThreads :
    (/\ ClosedBy(th)
     /\ pm[th].seen.memo # None
     /\ pm[th].seen.memo.status = "success") =>
      /\ pm[th].result = "true"
      /\ pm[th].seen.appended = pm[th].seen.memo.history_entry
      /\ pm[th].seen.after = None
      /\ ~pm[th].seen.fetched

\* C8: when close_position fails (the price fetch or the pnl computation
\* raises) it returns false, has memoized a failed result, has appended nothing
\* to the history and has left the Position in the open set unchanged.
C8_FailedCloseKeepsPosition ==
  \A th \in LedgerThreads :
    (ClosedBy(th) /\ pm[th].seen.failed) =>
      /\ pm[th].pc = "returned"
      /\ pm[th].result = "false"
      /\ pm[th].seen.memoAfter = [status |-> "failed"]
      /\ pm[th].seen.appended = None
      /\ pm[th].seen.after = pm[th].seen.before

\* the result memoized under the key of the call of th, in the next state
MemoAfter(th) == JSONFileCache_get(files', SnipeKey(sn[th].cand), MaxAge, now)

\* the call of th leaves execute in this step, after it had entered the try block
ExecutionEnds(th) ==
  /\ sn[th].pc # "returned"
  /\ sn'[th].pc = "returned"
  /\ sn'[th].registered

\* C11: when an execute call whose execution failed (safety rejection, low
\* balance, gas failure, failed swap, unsupported chain, exception during
\* dispatch) ends, the token is in the blacklist and a failed result is
\* memoized under (chain, dex, token); when a successful execution ends, a
\* success result is memoized under that key.
C11_FailureBlacklistsAndMemoizes ==
  [][\A th \in SniperThreads :
       ExecutionEnds(th) =>
         IF sn'[th].result = "true"
         THEN MemoAfter(th) = SnipeSuccess
         ELSE /\ sn[th].cand.token \in blacklist'
              /\ MemoAfter(th) = SnipeFailed]_vars

\* the steps of _snipe_ethereum were passed in the order of the code
GatesInOrder(call) ==
  /\ "gas" \in call.passed => "balance" \in call.passed
  /\ "balance" \in call.passed => (settings.anti_rug_enabled => "safety" \in call.passed)

\* C18: on the EVM entry path a swap is dispatched only after the safety
\* validator passed (when enabled), then the balance was sufficient, then the gas
\* parameters were computed; when one of these steps failed no swap is dispatched
\* and _snipe_ethereum returns False; it returns True only when the swap result
\* was confirmed.
C18_SwapOnlyAfterGates ==
  \A th \in SniperThreads :
    LET call == sn[th]
    IN  /\ GatesInOrder(call)
        /\ (call.dispatched \/ call.pc = "swap_uniswap") => "gas" \in call.passed
        /\ call.failedAt # "none" => /\ ~call.dispatched
                                      /\ call.snipe = "false"
        /\ call.snipe = "true" => call.swap = "confirmed"

\* the values the checks memoize for a failure
FailingMemos ==
  { [bool |-> FALSE], [is_renounced |-> FALSE], [is_valid |-> FALSE] }

\* C19: a safety check makes at most max_retries attempts of its network
\* operation; when every attempt failed the check returned False and a failing
\* result is memoized under its key, never True.
C19_RetriesBoundedFailClosed ==
  \A th \in Threads :
    LET l == ar[th].last
    IN  /\ l.attempts <= max_retries
        /\ l.failures <= l.attempts
        /\ (l.attempts > 0 /\ l.failures = l.attempts) =>
              /\ ~l.result
              /\ ~l.raised
              /\ l.memo \in FailingMemos
              /\ l.check \in ar[th].failed
              /\ ar[th].verdict = "false"

\* the dev-holding check gave up after max_retries failed attempts
C19_Witness ==
  \E th \in Threads :
    /\ ar[th].last.check = "check_dev_holding"
    /\ ar[th].last.attempts = max_retries
    /\ ar[th].last.failures = max_retries
    /\ ar[th].last.memo = [is_valid |-> FALSE]
    /\ ar[th].verdict = "false"

\* the chains check_holder_count has an explorer URL for (lines 334-337)
ExplorerChains == {"ethereum", "bsc"}

\* C20: the honeypot check passes without a network call when no honeypot
\* credential is configured; the holder-count check passes when no explorer
\* credential is configured or the chain is unsupported; the liquidity-lock check
\* passes when no LP token address is configured; in these cases the check never
\* makes run_all_checks return False.
C20_SkippedChecksPass ==
  \A th \in Threads :
    LET l == ar[th].last
        skipCase ==
          \/ l.check = "check_honeypot" /\ ~settings.honeypot_api_key
          \/ l.check = "check_holder_count" /\ ~settings.explorer_api_key
          \/ l.check = "check_holder_count" /\ ar[th].chain \notin ExplorerChains
          \/ l.check = "check_liquidity_lock" /\ ~settings.lp_token_address
    IN  skipCase => /\ l.result
                    /\ ~l.raised
                    /\ l.attempts = 0
                    /\ l.check \notin ar[th].failed

-----------------------------------------------------------------------------
(* The trailing stop: update_positions marks one Position, _check_strategy
   evaluates the trailing strategy on the dict made of it *)

\* the number of price updates in a run of the model
MaxTrailUpdates == 2

\* the prices observed: 1.00, 1.30, 1.35, 1.50, 1.60 and 2.00
TrailPrices == {RInt(1), Rat(13, 10), Rat(27, 20), Rat(3, 2), Rat(8, 5), RInt(2)}

\* trailing_stop_percent of the ledger and trail_percent of the strategy
TrailPercents == {RInt(10), RInt(20)}

trailRest == <<files, cacheVars, antiRugVars, sniperVars, ledgerVars, sizing, exits, pathVars>>

\* a Position of entry price 1.00 as open_position makes it, under one configuration
TrailInit ==
  /\ clock = 1
  /\ files = [k \in CacheKeys |-> NoFile]
  /\ \E enabled \in BOOLEAN, pct \in TrailPercents :
       trail = [started |-> TRUE,
                cfg |-> [DefaultPortfolio EXCEPT !.trailing_stop_enabled = enabled,
                                                 !.trailing_stop_percent = pct],
                pos |-> Position("0xA", "ethereum", "uniswapv3", RInt(1), RInt(100)),
                op |-> "none", price |-> RInt(1), percent |-> RInt(10),
                fired |-> FALSE, updates |-> 0]
  /\ CacheIdle
  /\ AntiRugIdle
  /\ SniperIdle
  /\ LedgerIdle
  /\ SizingIdle
  /\ ExitIdle
  /\ PathIdle

\* update_positions observes the price for the Position
TrailUpdate(price) ==
  /\ trail.updates < MaxTrailUpdates
  /\ trail' = [trail EXCEPT !.pos = Marked(@, price, trail.cfg), !.op = "update",
                             !.price = price, !.updates = @ + 1]
  /\ UNCHANGED <<clock, trailRest>>

\* _check_strategy of a trailing strategy at the price
TrailEvaluate(price, pct) ==
  /\ trail' = [trail EXCEPT
                 !.op = "evaluate", !.price = price, !.percent = pct,
                 !.fired = check_strategy(Strategy("trailing", RInt(0), 0, pct),
                                          OpenPositionDict(trail.pos), price,
                                          profit_pct(price, trail.pos.entry_price), now)]
  /\ UNCHANGED <<clock, trailRest>>

TrailNext ==
  \/ \E price \in TrailPrices : TrailUpdate(price)
  \/ \E price \in TrailPrices, pct \in TrailPercents : TrailEvaluate(price, pct)

SpecTrail == TrailInit /\ [][TrailNext]_vars

\* the ledger trails at 10% and has marked the Position at 1.50
TrailedAt150 ==
  /\ trail.cfg.trailing_stop_enabled
  /\ trail.cfg.trailing_stop_percent = RInt(10)
  /\ trail.pos.high_price = Rat(3, 2)

-----------------------------------------------------------------------------
(* AutoExit: the monitor loop of the exit thread and the SELL button of the
   dashboard, on the positions loaded from portfolio_data.json *)

\* the poll cycles of monitor_positions and the SELL clicks in a run of the model
MaxPolls == 2
MaxSells == 1

\* the state AutoExit does not touch
exitRest == <<cacheVars, sniperVars, pm, portfolio, sizing, trail, pathVars>>

\* what the venue quotes at a poll or an evaluation
ExitQuotes == {Num(RInt(1)), Num(RInt(3)), None, RaiseOutcome}

\* the strategy lists of the configurations
ExitStrategyLists ==
  { <<>>,
    << Strategy("time", RInt(0), 300, RInt(0)),
       Strategy("percentage", RInt(20), 0, RInt(0)),
       Strategy("trailing", RInt(0), 0, RInt(10)) >> }

\* settings['trading']['auto_exit'] and the rug_pull_threshold of anti_rug
ExitConfigs ==
  [strategies : ExitStrategyLists, global_stop_loss : {RInt(10)},
   rug_pull_threshold : {RInt(50), RInt(150)}]

\* AutoExit.__init__ after PortfolioManager.__init__ has loaded the file
ExitInit ==
  /\ clock = 1
  /\ settings \in {st \in SniperSettings \cup
                            {[t EXCEPT !.anti_rug_enabled = FALSE] : t \in SniperSettings} :
                     st.venues = {<<"ethereum", "uniswapv3">>}}
  /\ ar = [th \in Threads |-> NoRun]
  /\ portfolio \in {p \in LedgerPortfolios :
                       ~p.trailing_stop_enabled /\ p.file.history = <<>>}
  /\ files = load_portfolio_files([k \in CacheKeys |-> NoFile], portfolio.file, now)
  /\ positions = load_portfolio([k \in CacheKeys |-> NoFile], portfolio.file, now).positions
  /\ history = <<>>
  /\ lock = "free"
  /\ pm = [th \in Threads |-> NoPmCall]
  /\ \E cfg \in ExitConfigs :
       exits = [started |-> TRUE, cfg |-> cfg, active_positions |-> {},
                exit_history |-> <<>>, todo |-> <<>>, polls |-> 0, sells |-> 0,
                seen |-> [tok \in Tokens |-> None], attempted |-> {},
                call |-> [th \in ExitThreads |-> NoExitCall]]
  /\ CacheIdle
  /\ SniperIdle
  /\ SizingIdle
  /\ TrailIdle
  /\ PathIdle

\* the call of a thread, and the exits with that call replaced
ExitCall(th) == exits.call[th]

\* _execute_exit is left by the thread: back in _evaluate_position (its except
\* clause when an exception left _execute_exit), or back in the dashboard
Leave(th, call, raised) ==
  IF th = "exit"
  THEN [call EXCEPT !.pc = IF raised THEN "except" ELSE "finally"]
  ELSE [call EXCEPT !.pc = "sold"]

\* a trigger fired: its log line, then self._execute_exit(position, is_emergency)
Trigger(call, name, emergency, index) ==
  IF shorten_address_raises(call.position.token_address)
  THEN [call EXCEPT !.pc = "except"]
  ELSE [call EXCEPT !.trigger = name, !.emergency = emergency, !.index = index,
                    !.attempts = @ + 1, !.pc = "exit_cache"]

\* the price the poll had from the venue or the cache for an open position
PolledPrice(fs, tok) ==
  IF HasPosition(positions, tok)
  THEN JSONFileCache_get(fs, PriceKey(PositionOf(positions, tok).chain, tok), MaxAge, now)
  ELSE None

\* monitor_positions, lines 60-61: positions = self.portfolio.get_open_positions();
\* an exception of it is caught by the loop, which sleeps and polls again
AxPoll(order, qf) ==
  /\ ExitCall("exit").pc = "idle"
  /\ exits.polls < MaxPolls
  /\ lock = "free"
  /\ LET r == get_open_positions(order, positions, files, qf, <<>>, now)
     IN  /\ files' = r.files
         /\ exits' = [exits EXCEPT
                        !.polls = @ + 1, !.todo = r.results,
                        !.seen = [tok \in Tokens |-> PolledPrice(r.files, tok)],
                        !.attempted = {},
                        !.call["exit"] = [NoExitCall EXCEPT
                                            !.pc = IF r.raised THEN "idle" ELSE "loop"]]
  /\ UNCHANGED <<clock, settings, ar, positions, history, lock, exitRest>>

\* lines 70-82: the guard of _evaluate_position for the next position of the loop
AxEnter ==
  /\ ExitCall("exit").pc = "loop"
  /\ exits.todo # <<>>
  /\ LET pos == Head(exits.todo)
         tok == pos.token_address
     IN  exits' =
           IF tok \in exits.active_positions
           THEN IF shorten_address_raises(tok)
                THEN [exits EXCEPT !.todo = <<>>, !.call["exit"].pc = "idle"]
                ELSE [exits EXCEPT !.todo = Tail(@)]
           ELSE [exits EXCEPT
                   !.active_positions = @ \cup {tok},
                   !.call["exit"] = [NoExitCall EXCEPT !.pc = "price", !.position = pos,
                                                       !.entry = Num(pos.entry_price)]]
  /\ UNCHANGED <<clock, files, settings, ar, positions, history, lock, exitRest>>

\* line 62: the loop over the positions is over, the thread sleeps
AxLoopEnd ==
  /\ ExitCall("exit").pc = "loop"
  /\ exits.todo = <<>>
  /\ exits' = [exits EXCEPT !.call["exit"].pc = "idle"]
  /\ UNCHANGED <<clock, files, settings, ar, positions, history, lock, exitRest>>

\* lines 85-86: current_price and profit_pct (None / float and a zero entry price raise)
AxPrice(q) ==
  /\ ExitCall("exit").pc = "price"
  /\ LET pos == ExitCall("exit").position
         r   == exit_get_current_price(files, pos.chain, pos.token_address, q, now)
         bad == r.raised \/ r.price = None \/ pos.entry_price[1] = 0
     IN  /\ files' = r.files
         /\ exits' = [exits EXCEPT !.call["exit"].price = r.price,
                                   !.call["exit"].pc = IF bad THEN "except" ELSE "rug"]
  /\ UNCHANGED <<clock, settings, ar, positions, history, lock, exitRest>>

\* lines 89 and 193-209: _detect_rug_pull up to the price-drop test
AxRug(ctor) ==
  /\ ExitCall("exit").pc = "rug"
  /\ LET call == ExitCall("exit")
         pos  == call.position
         evm  == pos.chain = "ethereum" /\ settings.anti_rug_enabled
     IN  CASE evm /\ (ctor = "raise" \/ call.price.num[1] = 0) ->
                /\ exits' = [exits EXCEPT !.call["exit"].pc = "except"]
                /\ UNCHANGED ar
           [] evm /\ ctor = "ok" /\ call.price.num[1] # 0
                  /\ RLe(exits.cfg.rug_pull_threshold,
                         price_drop(pos.high_price, call.price.num)) ->
                /\ exits' = [exits EXCEPT
                               !.call["exit"] = Trigger([call EXCEPT !.rug = "true"],
                                                        "rug", TRUE, 0)]
                /\ UNCHANGED ar
           [] evm /\ ctor = "ok" /\ call.price.num[1] # 0
                  /\ ~RLe(exits.cfg.rug_pull_threshold,
                          price_drop(pos.high_price, call.price.num)) ->
                /\ exits' = [exits EXCEPT !.call["exit"].pc = "rug_checks"]
                /\ ar' = [ar EXCEPT !["exit"] = NewRun(pos.token_address, "ethereum")]
           [] OTHER ->
                /\ exits' = [exits EXCEPT !.call["exit"].rug = "false",
                                          !.call["exit"].pc = "stop_loss"]
                /\ UNCHANGED ar
  /\ UNCHANGED <<clock, files, settings, positions, history, lock, exitRest>>

\* line 211: checker.run_all_checks(), one check at a time
AxRugStep(net) ==
  /\ ExitCall("exit").pc = "rug_checks"
  /\ run_all_checks_step("exit", net)
  /\ UNCHANGED <<clock, settings, positions, history, lock, exits, exitRest>>

\* line 211: `return not checker.run_all_checks()`
AxRugVerdict ==
  /\ ExitCall("exit").pc = "rug_checks"
  /\ ~ar["exit"].active
  /\ LET call == ExitCall("exit")
     IN  exits' = [exits EXCEPT !.call["exit"] =
                     CASE ar["exit"].verdict = "true" ->
                            [call EXCEPT !.rug = "false", !.pc = "stop_loss"]
                       [] ar["exit"].verdict = "false" ->
                            Trigger([call EXCEPT !.rug = "true"], "rug", TRUE, 0)
                       [] OTHER -> [call EXCEPT !.pc = "except"]]
  /\ ar' = [ar EXCEPT !["exit"] = NoRun]
  /\ UNCHANGED <<clock, files, settings, positions, history, lock, exitRest>>

\* lines 99-112: the global stop loss
AxStopLoss ==
  /\ ExitCall("exit").pc = "stop_loss"
  /\ LET call   == ExitCall("exit")
         profit == profit_pct(call.price.num, call.position.entry_price)
     IN  exits' = [exits EXCEPT !.call["exit"] =
                     IF stop_loss_hit(profit, exits.cfg.global_stop_loss)
                     THEN Trigger([call EXCEPT !.stop = "true"], "stop_loss", FALSE, 0)
                     ELSE [call EXCEPT !.stop = "false", !.pc = "strategies"]]
  /\ UNCHANGED <<clock, files, settings, ar, positions, history, lock, exitRest>>

\* lines 115-130: the strategies in list order
AxStrategies ==
  /\ ExitCall("exit").pc = "strategies"
  /\ LET call   == ExitCall("exit")
         profit == profit_pct(call.price.num, call.position.entry_price)
         i      == FirstMatch(exits.cfg.strategies, call.position, call.price.num,
                              profit, now)
     IN  exits' = [exits EXCEPT !.call["exit"] =
                     IF i = 0 THEN [call EXCEPT !.pc = "finally"]
                     ELSE Trigger(call, "strategy", FALSE, i)]
  /\ UNCHANGED <<clock, files, settings, ar, positions, history, lock, exitRest>>

\* lines 246-272: the memoized result of an earlier exit of the token. A success
\* goes on to close_position without a swap, a failure returns at once; the log
\* line raises for an address that is not an EVM address.
AxExitCache(th) ==
  /\ ExitCall(th).pc = "exit_cache"
  /\ LET call   == ExitCall(th)
         pos    == call.position
         key    == ExitKey(pos.chain, pos.token_address)
         cached == JSONFileCache_get(files, key, MaxAge, now)
     IN  /\ files' = JSONFileCache_get_files(files, key, MaxAge, now)
         /\ exits' = [exits EXCEPT !.call[th] =
                        CASE cached = None -> [call EXCEPT !.pc = "dispatch"]
                          [] cached # None /\ shorten_address_raises(pos.token_address) ->
                               Leave(th, call, TRUE)
                          [] cached # None /\ ~shorten_address_raises(pos.token_address)
                                /\ cached.status = "success" ->
                               [call EXCEPT !.pc = "close"]
                          [] OTHER -> Leave(th, call, FALSE)]
  /\ UNCHANGED <<clock, settings, ar, positions, history, lock, exitRest>>

\* `if is_emergency:` of the handler of _execute_exit (line 318)
is_emergency(call) == call.emergency

\* lines 274-319 up to close_position: the swap of _exit_ethereum or
\* _exit_solana, the exit_info and the memoized success; the handler memoizes
\* the failure and an emergency exit goes on to the fallback transfer
AxDispatch(th, out) ==
  /\ ExitCall(th).pc = "dispatch"
  /\ LET call   == ExitCall(th)
         pos    == call.position
         key    == ExitKey(pos.chain, pos.token_address)
         failed == \/ out = RaiseOutcome
                   \/ out.exit_price = None
                   \/ call.entry = None
                   \/ call.entry.num[1] = 0
         sent   == [call EXCEPT !.dispatches = @ + 1,
                                !.swapped = out # RaiseOutcome]
     IN  CASE shorten_address_raises(pos.token_address) ->
                /\ exits' = [exits EXCEPT !.call[th] = Leave(th, call, TRUE)]
                /\ UNCHANGED files
           [] ~shorten_address_raises(pos.token_address) /\ failed ->
                /\ files' = JSONFileCache_set(files, key, ExitFailed, now)
                /\ exits' = [exits EXCEPT !.call[th] =
                               IF is_emergency(call) THEN [sent EXCEPT !.pc = "fallback"]
                               ELSE Leave(th, sent, FALSE)]
           [] OTHER ->
                /\ files' = JSONFileCache_set(files, key,
                              ExitSuccess(profit_pct(out.exit_price.num, call.entry.num)), now)
                /\ exits' = [exits EXCEPT !.call[th] = [sent EXCEPT !.pc = "close"]]
  /\ UNCHANGED <<clock, settings, ar, positions, history, lock, exitRest>>

\* lines 262 and 296: self.exit_history.append(...), the list of the AutoExit
\* of monitor_positions; the AutoExit the dashboard builds for a SELL has a list
\* of its own, which goes with it
exit_history_append(hist, th, tok) == IF th = "exit" THEN Append(hist, tok) ELSE hist

\* lines 261-262 and 297-298: self.portfolio.close_position(token_address), whose
\* return value is not looked at, then exit_history.append. close_position waits
\* for the ledger lock; when it finds the Position and a price it removes the
\* Position and never returns (it calls _save_portfolio with the lock held).
AxClose(th, q) ==
  /\ ExitCall(th).pc = "close"
  /\ lock = "free"
  /\ LET call == ExitCall(th)
         tok  == call.position.token_address
         out  == close_position(positions, history, files, tok, None, q, now)
     IN  /\ positions' = out.positions
         /\ history' = out.history
         /\ files' = out.files
         /\ lock' = IF out.status = "blocked" THEN th ELSE lock
         /\ exits' =
              CASE out.status = "returned" ->
                     [exits EXCEPT !.exit_history = exit_history_append(@, th, tok),
                                   !.call[th] = Leave(th, [call EXCEPT !.closed = out.value],
                                                      FALSE)]
                [] out.status = "raised" ->
                     [exits EXCEPT !.call[th] = Leave(th, [call EXCEPT !.closed = "raised"],
                                                      TRUE)]
                [] OTHER ->
                     [exits EXCEPT !.call[th] = [call EXCEPT !.closed = "blocked",
                                                             !.pc = "blocked"]]
  /\ UNCHANGED <<clock, settings, ar, exitRest>>

\* lines 416-500: _execute_fallback_exit, the direct transfer of an emergency
\* exit whose swap failed; only a memoized success keeps it from transferring
AxFallback(th, out) ==
  /\ ExitCall(th).pc = "fallback"
  /\ LET call   == ExitCall(th)
         pos    == call.position
         key    == FallbackKey(pos.chain, pos.token_address)
         cached == JSONFileCache_get(files, key, MaxAge, now)
         fs1    == JSONFileCache_get_files(files, key, MaxAge, now)
     IN  /\ files' = IF cached # None /\ cached.status = "success" THEN fs1
                     ELSE JSONFileCache_set(fs1, key,
                            IF out = "ok" THEN [status |-> "success"]
                            ELSE [status |-> "failed"], now)
         /\ exits' = [exits EXCEPT !.call[th] = Leave(th, call, FALSE)]
  /\ UNCHANGED <<clock, settings, ar, positions, history, lock, exitRest>>

\* lines 132-139: the except clause of _evaluate_position; its log line raises
\* for an address that is not an EVM address, and the exception leaves
\* _evaluate_position through the finally clause
AxExcept ==
  /\ ExitCall("exit").pc = "except"
  /\ exits' = [exits EXCEPT
                 !.call["exit"].pc = "finally",
                 !.call["exit"].leaving =
                    shorten_address_raises(ExitCall("exit").position.token_address)]
  /\ UNCHANGED <<clock, files, settings, ar, positions, history, lock, exitRest>>

\* lines 140-141: `del self.active_positions[token_address]`
FinallyActive(active, tok) == active \ {tok}

\* the finally clause, then the next position of the loop, or the handler of
\* monitor_positions when an exception is leaving
AxFinally ==
  /\ ExitCall("exit").pc = "finally"
  /\ LET call == ExitCall("exit")
     IN  exits' = [exits EXCEPT
                     !.active_positions = FinallyActive(@, call.position.token_address),
                     !.todo = IF call.leaving THEN <<>> ELSE Tail(@),
                     !.attempted = IF call.attempts > 0
                                   THEN @ \cup {call.position.token_address} ELSE @,
                     !.call["exit"] = [call EXCEPT !.ended = TRUE,
                                         !.pc = IF call.leaving THEN "idle" ELSE "loop"]]
  /\ UNCHANGED <<clock, files, settings, ar, positions, history, lock, exitRest>>

\* dashboard.py 221-234: SELL builds a position from the current price and calls
\* _execute_exit of a new AutoExit on it
AxSell(tok, q) ==
  /\ ExitCall("dashboard").pc = "idle"
  /\ exits.sells < MaxSells
  /\ LET venue == VenueOf(tok)
         r     == get_current_price(files, venue.chain, tok, q, now)
         price == IF r.price = None THEN RInt(0) ELSE r.price.num
         pos   == OpenPositionDict(Position(tok, venue.chain, venue.dex, price, RInt(100)))
     IN  /\ files' = r.files
         /\ exits' = [exits EXCEPT
                        !.sells = @ + 1,
                        !.call["dashboard"] =
                           IF r.raised THEN NoExitCall
                           ELSE [NoExitCall EXCEPT !.pc = "exit_cache", !.position = pos,
                                                   !.entry = r.price, !.attempts = 1]]
  /\ UNCHANGED <<clock, settings, ar, positions, history, lock, exitRest>>

\* dashboard.py 235: _execute_exit has returned or raised
AxSold ==
  /\ ExitCall("dashboard").pc = "sold"
  /\ exits' = [exits EXCEPT !.call["dashboard"] = NoExitCall]
  /\ UNCHANGED <<clock, files, settings, ar, positions, history, lock, exitRest>>

\* the instants of the exit runs: 0 and 301
ExitInstants == {1, 5}

\* line 62: time.sleep(monitor_interval) between two polls
AxTick ==
  /\ ExitCall("exit").pc = "idle"
  /\ \E c \in ExitInstants : c > clock /\ clock' = c
  /\ UNCHANGED <<files, settings, ar, positions, history, lock, exits, exitRest>>

ExitNext ==
  \/ \E order \in Orders(positions), qf \in [Tokens -> ExitQuotes] : AxPoll(order, qf)
  \/ AxEnter
  \/ AxLoopEnd
  \/ \E q \in ExitQuotes : AxPrice(q)
  \/ \E ctor \in {"ok", "raise"} : AxRug(ctor)
  \/ \E net \in NetOutcomes : AxRugStep(net)
  \/ AxRugVerdict
  \/ AxStopLoss
  \/ AxStrategies
  \/ \E th \in ExitThreads : AxExitCache(th)
  \/ \E th \in ExitThreads, out \in ExitOutcomes : AxDispatch(th, out)
  \/ \E th \in ExitThreads, q \in ExitQuotes : AxClose(th, q)
  \/ \E th \in ExitThreads, out \in {"ok", "raise"} : AxFallback(th, out)
  \/ AxExcept
  \/ AxFinally
  \/ \E tok \in Tokens, q \in ExitQuotes : AxSell(tok, q)
  \/ AxSold
  \/ AxTick

SpecExit == ExitInit /\ [][ExitNext]_vars

\* the evaluation of the exit thread, ended or in progress
Evaluation == ExitCall("exit")

\* the price the venue gave for the position under evaluation is known
PriceKnown == Evaluation.position # None /\ Evaluation.price # None

\* the profit of the position under evaluation at that price
EvaluationProfit == profit_pct(Evaluation.price.num, Evaluation.position.entry_price)

\* no rug pull was detected: the test ran and gave False, or the chain is one
\* for which _detect_rug_pull returns False at once
NoRugDetected ==
  \/ Evaluation.rug = "false"
  \/ Evaluation.rug = "none" /\ Evaluation.position.chain # "ethereum"

\* a poll of monitor_positions has run to its end
PollEnded == exits.polls > 0 /\ Evaluation.pc = "idle"

\* the price of the token that the poll was given by the venue
MarketPrice(tok) == exits.seen[tok]

\* _detect_rug_pull returns False for the position without a call that can fail
NoRugTest(tok) ==
  PositionOf(positions, tok).chain # "ethereum" \/ ~settings.anti_rug_enabled

\* C13: for every open position on any chain, when no rug pull is detected and
\* profit% = (current/entry - 1) * 100 <= -|global_stop_loss|, _evaluate_position
\* triggers an ordinary (non-emergency) exit before any strategy is evaluated;
\* so after a poll every such position that is still open has had an exit
\* attempt.
C13_StopLossTriggersExit ==
  exits.started =>
    ((Evaluation.ended /\ PriceKnown /\ NoRugDetected
        /\ stop_loss_hit(EvaluationProfit, exits.cfg.global_stop_loss))
       => /\ Evaluation.trigger = "stop_loss"
          /\ ~Evaluation.emergency
          /\ Evaluation.attempts = 1
          /\ Evaluation.index = 0)
    /\ \A tok \in Tokens :
         (PollEnded /\ HasPosition(positions, tok) /\ NoRugTest(tok)
            /\ MarketPrice(tok) # None
            /\ stop_loss_hit(profit_pct(MarketPrice(tok).num,
                                        PositionOf(positions, tok).entry_price),
                             exits.cfg.global_stop_loss))
           => tok \in exits.attempted
    /\ stop_loss_hit(profit_pct(<<17, 20>>, RInt(1)), RInt(10))

\* the rug test of the evaluation was cut short by an exception of the checker
RugTestRaised ==
  /\ Evaluation.position.chain = "ethereum"
  /\ settings.anti_rug_enabled
  /\ Evaluation.rug = "none"

\* C14: for every open position, whatever its chain and the strategies,
\* _evaluate_position triggers an emergency exit whenever
\* (high_price / current_price - 1) * 100 >= rug_pull_threshold, or the re-run
\* of the safety validator fails; so after a poll every position whose price
\* had dropped that far and that is still open has had an exit attempt.
C14_RugPullTriggersEmergencyExit ==
  exits.started =>
    /\ (Evaluation.ended /\ PriceKnown /\ ~RugTestRaised
          /\ Evaluation.price.num[1] > 0
          /\ RLe(exits.cfg.rug_pull_threshold,
                 price_drop(Evaluation.position.high_price, Evaluation.price.num)))
         => /\ Evaluation.trigger = "rug"
            /\ Evaluation.emergency
    /\ (Evaluation.ended /\ Evaluation.rug = "true")
         => /\ Evaluation.trigger = "rug"
            /\ Evaluation.emergency
    /\ \A tok \in Tokens :
         (PollEnded /\ HasPosition(positions, tok) /\ NoRugTest(tok)
            /\ MarketPrice(tok) # None /\ MarketPrice(tok).num[1] > 0
            /\ RLe(exits.cfg.rug_pull_threshold,
                   price_drop(PositionOf(positions, tok).high_price, MarketPrice(tok).num)))
           => tok \in exits.attempted
    /\ RLe(RInt(50), price_drop(RInt(1), <<2, 5>>))

\* the exit attempt of the evaluation failed at the swap or at the ledger close
AttemptFailed(call) ==
  /\ call.attempts > 0
  /\ call.closed # "true"

\* C15: a position leaves the open set through the exit engine only after an
\* exit swap succeeded and close_position returned True; after an attempt that
\* failed at the swap or at the ledger close the position is still open and no
\* longer marked as under evaluation, so that the next poll evaluates it again.
C15_ClosedOnlyOnConfirmedExit ==
  [][/\ \A tok \in Tokens :
          (HasPosition(positions, tok) /\ ~HasPosition(positions', tok)) =>
             \E th \in ExitThreads :
               /\ exits'.call[th].position # None
               /\ exits'.call[th].position.token_address = tok
               /\ exits'.call[th].closed = "true"
     /\ (~Evaluation.ended /\ exits'.call["exit"].ended
           /\ AttemptFailed(exits'.call["exit"])) =>
          /\ HasPosition(positions', Evaluation.position.token_address)
          /\ Evaluation.position.token_address \notin exits'.active_positions]_vars

\* the thread is inside _evaluate_position or _execute_exit for the token
ExitInProgress(th, tok) ==
  /\ ExitCall(th).pc \notin {"idle", "loop", "sold"}
  /\ ExitCall(th).position # None
  /\ ExitCall(th).position.token_address = tok

\* C16: no two evaluations or exit attempts of the same position run at the same
\* time: while one is in progress for a token no other thread evaluates or
\* dispatches for that token.
C16_NoConcurrentExitAttempts ==
  exits.started =>
    \A tok \in Tokens : \A th1, th2 \in ExitThreads :
      (ExitInProgress(th1, tok) /\ ExitInProgress(th2, tok)) => th1 = th2

\* strategy i of the configuration matches the position under evaluation
StrategyMatches(i) ==
  check_strategy(exits.cfg.strategies[i], Evaluation.position, Evaluation.price.num,
                 EvaluationProfit, now)

\* C17: one _evaluate_position call tests the triggers in priority order: the
\* rug pull, then the global stop loss, then the strategies in list order, the
\* first match winning; it calls _execute_exit at most once, and never acts on a
\* trigger of lower priority when one of higher priority fired.
C17_TriggersInPriorityOrder ==
  exits.started =>
    /\ Evaluation.attempts <= 1
    /\ Evaluation.dispatches <= 1
    /\ Evaluation.rug = "true" => (Evaluation.trigger = "rug" /\ Evaluation.stop = "none")
    /\ Evaluation.stop = "true" => Evaluation.trigger = "stop_loss"
    /\ Evaluation.trigger = "rug" => (Evaluation.rug = "true" /\ Evaluation.index = 0)
    /\ Evaluation.trigger = "stop_loss" =>
         /\ Evaluation.rug = "false"
         /\ Evaluation.stop = "true"
         /\ Evaluation.index = 0
    /\ (Evaluation.trigger = "strategy" /\ Evaluation.pc # "idle") =>
         /\ Evaluation.rug = "false"
         /\ Evaluation.stop = "false"
         /\ Evaluation.index \in 1..Len(exits.cfg.strategies)
         /\ StrategyMatches(Evaluation.index)
         /\ \A j \in 1..(Evaluation.index - 1) : ~StrategyMatches(j)

\* the percentage strategy, second of the list, won over the trailing strategy
\* that matched as well, after the rug test and the stop loss had not fired
C17_Witness ==
  /\ exits.started
  /\ Evaluation.trigger = "strategy"
  /\ Evaluation.index = 2
  /\ Evaluation.pc = "dispatch"
  /\ StrategyMatches(3)
  /\ Evaluation.rug = "false"

-----------------------------------------------------------------------------
(* run_all_checks: the order of the checks *)

\* the place of a check in the list `checks`
CheckIndex(name) == CHOOSE i \in 1..Len(Checks) : Checks[i] = name

\* C21: run_all_checks invokes the enabled checks in the order of its list
\* (verification, honeypot, renounced, dev holding, holder count, liquidity
\* lock): a check is invoked after every enabled check before it in the list and
\* before every check after it, and once a check has returned false the run
\* invokes no further check.
C21_ChecksInOrderStopAtFirstFailure ==
  [][\A th \in Threads :
       ar'[th].runs = ar[th].runs =>
         /\ \A n \in ar'[th].invoked \ ar[th].invoked :
              /\ \A m \in ar[th].invoked : CheckIndex(m) < CheckIndex(n)
              /\ \A m \in EnabledChecks :
                   CheckIndex(m) < CheckIndex(n) => m \in ar[th].invoked
         /\ ar[th].failed # {} =>
              /\ ar'[th].invoked = ar[th].invoked
              /\ ar'[th].verdict = "false"]_vars

\* the first check failed while a later one was enabled, and it was not invoked
C21_Witness ==
  \E th \in Threads :
    /\ ar[th].verdict = "false"
    /\ ar[th].failed = {"check_renounced"}
    /\ ar[th].invoked = {"check_contract_verification", "check_renounced"}
    /\ settings.enabled["check_dev_holding"]
    /\ settings.enabled["check_liquidity_lock"]

-----------------------------------------------------------------------------
(* The ledger: the history of closed trades *)

\* h is a prefix of g
IsPrefix(h, g) == Len(h) <= Len(g) /\ \A i \in 1..Len(h) : g[i] = h[i]

\* the body of a close_position call of th runs in this step and removes the
\* Position of its token
ClosesPosition(th) ==
  /\ pm[th].op = "close_position"
  /\ pm[th].pc = "acquire"
  /\ pm'[th].seen.ran
  /\ pm'[th].seen.before # None
  /\ pm'[th].seen.after = None

\* C22: the history of closed trades is append-only: every step of open_position,
\* close_position, update_positions and liquidate_all leaves the history it found
\* as a prefix of the history afterwards, a close that removes its Position
\* appends exactly one entry, the ClosedTrade of that Position, and nothing else
\* appends.
C22_HistoryAppendOnly ==
  [][portfolio'.restarts = portfolio.restarts =>
       /\ IsPrefix(history, history')
       /\ Len(history') <= Len(history) + 1
       /\ \A th \in LedgerThreads :
            ClosesPosition(th) =>
              /\ Len(history') = Len(history) + 1
              /\ history'[Len(history')] = pm'[th].seen.appended
              /\ history'[Len(history')].token_address = pm[th].token
       /\ Len(history') = Len(history) + 1 => \E th \in LedgerThreads : ClosesPosition(th)]_vars

\* a close has appended its trade to a history that held one trade already
C22_Witness ==
  \E th \in LedgerThreads :
    /\ ClosedBy(th)
    /\ pm[th].seen.appended # None
    /\ Len(history) = 2
    /\ history[2] = pm[th].seen.appended
    /\ history[1] \in {h[1] : h \in FileHistories \ {<<>>}}

\* C23: every Position of the open set has amount > 0 and entry_price > 0,
\* whatever price the venue gave open_position (zero and a failed quote
\* included), in every reachable state.
C23_PositionsHavePositiveAmountAndPrice ==
  \A p \in positions :
    /\ p.amount[1] > 0
    /\ p.entry_price[1] > 0

-----------------------------------------------------------------------------
(* Sniper.execute: the memoized verdict *)

\* C24: a call of execute that finds an unexpired memoized result under the key
\* of its candidate returns the memoized verdict (true for a success, false for
\* a failure) without registering a pending entry and without dispatching; after
\* a memoized failure the token is in the blacklist.
C24_MemoizedVerdictReturned ==
  \A th \in SniperThreads :
    (sn[th].pc = "returned" /\ sn[th].memo # "none") =>
      /\ sn[th].result = IF sn[th].memo = "success" THEN "true" ELSE "false"
      /\ ~sn[th].registered
      /\ ~sn[th].dispatched
      /\ sn[th].memo = "failed" => sn[th].cand.token \in blacklist

\* a call answered false from a memoized failure, its token now blacklisted
\* though it was not when the call began
C24_Witness ==
  \E th \in SniperThreads :
    /\ sn[th].pc = "returned"
    /\ sn[th].memo = "failed"
    /\ sn[th].result = "false"
    /\ ~sn[th].blAtCall
    /\ sn[th].cand.token \in blacklist

\* a call answered true from a memoized success
C24_WitnessSuccess ==
  \E th \in SniperThreads :
    /\ sn[th].pc = "returned"
    /\ sn[th].memo = "success"
    /\ sn[th].result = "true"

-----------------------------------------------------------------------------
(* AutoExit._execute_exit: the memoized exit *)

\* the thread dispatches an exit swap in this step
DispatchesSwap(th) ==
  /\ ExitCall(th).pc = "dispatch"
  /\ exits'.call[th].dispatches = ExitCall(th).dispatches + 1

\* the unexpired exit outcome memoized for the position of the thread's call
ExitMemo(th) ==
  JSONFileCache_get(files, ExitKey(ExitCall(th).position.chain,
                                   ExitCall(th).position.token_address), MaxAge, now)

\* C25: within the TTL of the memo the exit engine dispatches at most one exit
\* swap per (chain, token, amount): no exit swap is dispatched for a position
\* while an unexpired exit outcome, success or failure, is memoized under its key.
C25_NoSwapWhileExitMemoized ==
  [][\A th \in ExitThreads : DispatchesSwap(th) => ExitMemo(th) = None]_vars

-----------------------------------------------------------------------------
(* The ledger lock: the sections of open_position, close_position,
   update_positions and liquidate_all, entered and left step by step *)

\* `with self.lock:` is entered: Lock.acquire() returns once the lock is free.
\* The thread notes the position set it finds.
LkAcquire(th) ==
  /\ AtLock(th, pm[th].op)
  /\ lock' = th
  /\ pm' = [pm EXCEPT ![th].pc = "inside",
                      ![th].seen = [ran |-> FALSE, found |-> positions, status |-> "none"]]
  /\ UNCHANGED <<clock, files, positions, history, portfolio, ledgerRest>>

\* the body inside `with self.lock:` runs up to its return, its exception, or
\* the nested acquisition that never returns
LkBody(th, op, out) ==
  /\ pm[th].pc = "inside"
  /\ pm[th].op = op
  /\ positions' = out.positions
  /\ history' = out.history
  /\ files' = out.files
  /\ pm' = [pm EXCEPT ![th].pc = IF out.status = "blocked" THEN "blocked" ELSE "leaving",
                      ![th].result = out.value,
                      ![th].seen = [@ EXCEPT !.ran = TRUE, !.status = out.status]]
  /\ UNCHANGED <<clock, lock, portfolio, ledgerRest>>

LkOpen(th) ==
  \E q \in QuoteOutcomes, bal \in BalanceOutcomes :
    LkBody(th, "open_position",
           open_position(positions, history, files, CandidateOf(pm[th].token), q, bal,
                         portfolio, now))

LkClose(th) ==
  \E q \in QuoteOutcomes :
    LkBody(th, "close_position",
           close_position(positions, history, files, pm[th].token, pm[th].given, q, now))

LkUpdate(th) ==
  \E order \in Orders(positions), qf \in [Tokens -> QuoteOutcomes] :
    LkBody(th, "update_positions",
           update_positions(positions, history, files, order, qf, portfolio, now))

LkLiquidate(th) ==
  LkBody(th, "liquidate_all", liquidate_all(positions, history, files))

\* the `with` block is left, by return or by exception: Lock.release()
LkRelease(th) ==
  /\ pm[th].pc = "leaving"
  /\ lock' = "free"
  /\ pm' = [pm EXCEPT ![th].pc = pm[th].seen.status]
  /\ UNCHANGED <<clock, files, positions, history, portfolio, ledgerRest>>

LockNext ==
  \/ \E th \in LedgerThreads, tok \in Tokens, given \in ExitPrices :
        \E op \in ThreadOps(th) : PmCall(th, op, tok, given)
  \/ \E th \in LedgerThreads : LkAcquire(th)
  \/ \E th \in LedgerThreads : LkOpen(th)
  \/ \E th \in LedgerThreads : LkClose(th)
  \/ \E th \in LedgerThreads : LkUpdate(th)
  \/ \E th \in LedgerThreads : LkLiquidate(th)
  \/ \E th \in LedgerThreads : LkRelease(th)
  \/ \E th \in LedgerThreads : PmReturned(th)

SpecLock == LedgerInit /\ [][LockNext]_vars

\* the thread is inside the `with self.lock:` block of its operation
InSection(th) == pm[th].pc \in {"inside", "leaving", "blocked"}

\* C26: open_position, close_position and update_positions (and liquidate_all)
\* exclude one another: no two threads are inside their sections at once, the
\* thread inside holds the lock, and the position set a section works on is the
\* one it found when it entered, so that the sections act one after another.
C26_LedgerSectionsExclusive ==
  /\ \A t1, t2 \in LedgerThreads : (InSection(t1) /\ InSection(t2)) => t1 = t2
  /\ \A th \in LedgerThreads :
       /\ InSection(th) => lock = th
       /\ pm[th].pc = "inside" => pm[th].seen.found = positions

\* one thread is inside its section while another waits at the lock
C26_Witness ==
  \E t1, t2 \in LedgerThreads :
    /\ pm[t1].pc = "inside"
    /\ pm[t1].op = "close_position"
    /\ pm[t2].pc = "acquire"
    /\ pm[t2].op = "open_position"

-----------------------------------------------------------------------------
(* Sniper.execute: what reaches the polling loop *)

\* C27: no failure inside Sniper.execute reaches the polling loop that called it
\* as an exception: every call of execute that ends has returned True or False.
C27_ExecuteNeverRaises ==
  \A th \in SniperThreads :
    sn[th].pc = "returned" => sn[th].result \in {"true", "false"}

-----------------------------------------------------------------------------
(* _calculate_position_size: the volatility hint *)

\* portfolio value * risk% / 100
RiskAmount == RMul(sizing.portfolio_value, RDiv(sizing.cfg.max_risk_per_trade, RInt(100)))

\* the candidate of the call carries a volatility hint
HasHint == "value" \in DOMAIN sizing.volatility

\* the call was given a price it can divide by
PriceUsable == sizing.entry_price # None /\ sizing.entry_price.num[1] # 0

\* C28: with a volatility hint v, _calculate_position_size divides the risk
\* amount by max(1.5, 0.5 + v) before it divides by the price and clamps;
\* without a hint the risk amount is divided by the price as it is.
C28_RiskDividedByMaxOfHint ==
  (SizeReturned /\ PriceUsable) =>
    sizing.out.value =
      Clamp(RDiv(IF HasHint
                 THEN RDiv(RiskAmount, RMax(<<3, 2>>, RAdd(<<1, 2>>, sizing.volatility.value)))
                 ELSE RiskAmount,
                 sizing.entry_price.num),
            sizing.cfg.min_position_size, sizing.cfg.max_position_size)

-----------------------------------------------------------------------------
(* update_positions: the high-water price *)

\* the body of an update_positions call runs in this step
UpdateRuns ==
  \E th \in LedgerThreads :
    /\ pm[th].op = "update_positions"
    /\ pm[th].pc = "acquire"
    /\ pm'[th].pc # "acquire"

\* the price update_positions had for the token: the one memoized after the step
RefreshedPrice(pos) ==
  JSONFileCache_get(files', PriceKey(pos.chain, pos.token_address), MaxAge, now)

\* C29: a Position that stays open changes only in update_positions, and only
\* when the refreshed price is strictly above its high-water price: the
\* high-water price becomes that price and, with the trailing stop enabled, the
\* trailing stop becomes price * (1 - trail%/100); nothing else of it changes. So
\* the high-water price never decreases and is never below the entry price.
C29_MarkOnlyRaised ==
  [][portfolio'.restarts = portfolio.restarts =>
       /\ \A tok \in Tokens :
            (HasPosition(positions, tok) /\ HasPosition(positions', tok)) =>
              LET pos   == PositionOf(positions, tok)
                  after == PositionOf(positions', tok)
                  price == RefreshedPrice(pos)
              IN  after # pos =>
                    /\ UpdateRuns
                    /\ price # None
                    /\ ~RLe(price.num, pos.high_price)
                    /\ after = [pos EXCEPT
                                  !.high_price = price.num,
                                  !.trailing_stop =
                                    IF portfolio.trailing_stop_enabled
                                    THEN RMul(price.num,
                                              RSub(RInt(1), RDiv(portfolio.trailing_stop_percent,
                                                                 RInt(100))))
                                    ELSE @]
       /\ \A pos \in positions \cup positions' : RLe(pos.entry_price, pos.high_price)]_vars

\* a Position marked at 3, above its entry price 2, with the stop at 2.7
C29_Witness ==
  \E pos \in positions :
    /\ pos.entry_price = RInt(2)
    /\ pos.high_price = RInt(3)
    /\ pos.trailing_stop = <<27, 10>>
    /\ \E th \in LedgerThreads : pm[th].op = "update_positions" /\ pm[th].pc = "blocked"

-----------------------------------------------------------------------------
(* AutoExit._execute_exit: the fallback transfer *)

\* the try block of _execute_exit fails in this step: the swap raised or was not
\* confirmed, or its result could not be worked into an exit_info
SwapPathFails(th) ==
  /\ ExitCall(th).pc = "dispatch"
  /\ exits'.call[th].dispatches = ExitCall(th).dispatches + 1
  /\ exits'.call[th].pc # "close"

\* the thread is in _execute_fallback_exit
InFallback(th) == ExitCall(th).pc = "fallback"

\* C30: an emergency exit of an EVM position whose swap path fails goes on to
\* the direct transfer to the fallback wallet; the transfer is attempted only in
\* an emergency exit of an EVM position, never in an ordinary exit, and only
\* after the swap path of that exit has failed: the swap was not made.
C30_FallbackOnlyAfterFailedEmergencySwap ==
  [][\A th \in ExitThreads :
       /\ (SwapPathFails(th) /\ ExitCall(th).emergency) => exits'.call[th].pc = "fallback"
       /\ (SwapPathFails(th) /\ ~ExitCall(th).emergency) => exits'.call[th].pc # "fallback"
       /\ InFallback(th) =>
            /\ ExitCall(th).emergency
            /\ ExitCall(th).trigger = "rug"
            /\ ExitCall(th).position.chain = "ethereum"
            /\ ExitCall(th).position.token_address \in EvmTokens
            /\ ExitCall(th).dispatches = 1
            /\ ~ExitCall(th).swapped
            /\ ExitCall(th).closed = "none"
       /\ (~InFallback(th) /\ exits'.call[th].pc = "fallback") => SwapPathFails(th)
       /\ \A tok \in Tokens :
            (/\ ~files[FallbackKey(VenueOf(tok).chain, tok)].exists
             /\ files'[FallbackKey(VenueOf(tok).chain, tok)].exists)
              => /\ tok \in EvmTokens
                 /\ \E other \in ExitThreads :
                      InFallback(other) /\ ExitCall(other).position.token_address = tok]_vars

\* the swap of an emergency exit raised and the transfer is about to be made
C30_Witness ==
  /\ exits.started
  /\ InFallback("exit")
  /\ ~ExitCall("exit").swapped
  /\ ExitCall("exit").emergency
  /\ ~files[FallbackKey("ethereum", ExitCall("exit").position.token_address)].exists

-----------------------------------------------------------------------------
(* AutoExit._exit_solana on its own: the venues an exit is dispatched through *)

\* bound: the calls of _exit_solana in one behaviour
MaxSolCalls == 2

\* the positions _execute_exit hands to _exit_solana: every chain but 'ethereum'
\* (auto_exit.py 281-284), the EVM chain polygon included
SolExitPositions ==
  { Position("So1", "solana", "raydium", RInt(1), RInt(100)),
    Position("So1", "solana", "jupiter", RInt(1), RInt(100)),
    Position("0xA", "polygon", "quickswap", RInt(1), RInt(100)) }

\* what execute_swap of a venue client gives: an exception, None, or a result
\* dict with its status
SwapResults ==
  {RaiseOutcome, None, [status |-> "failed"], [status |-> "confirmed"]}

\* `result and result.get('status') == 'confirmed'` (line 406)
swap_confirmed(result) ==
  result # None /\ result # RaiseOutcome /\ result.status = "confirmed"

solRest == <<clock, files, cacheVars, antiRugVars, sniperVars, ledgerVars, sizing, exits, trail, rsn, io>>

SolExitInit ==
  /\ clock = 1
  /\ files = [k \in CacheKeys |-> NoFile]
  /\ CacheIdle
  /\ AntiRugIdle
  /\ SniperIdle
  /\ LedgerIdle
  /\ SizingIdle
  /\ ExitIdle
  /\ TrailIdle
  /\ PathIdle

\* _exit_solana(position, is_emergency) is entered (lines 370-373)
SxCall(position, emergency) ==
  /\ solx.pc \in {"idle", "returned", "raised"}
  /\ solx.calls < MaxSolCalls
  /\ solx' = [calls |-> solx.calls + 1, pc |-> "dispatch", position |-> position,
              emergency |-> emergency, venues |-> <<>>, first |-> None,
              result |-> None, out |-> None]
  /\ UNCHANGED solRest

\* lines 376-383: the swap through Jupiter of an emergency exit or of a position
\* whose dex is 'jupiter'; an exception goes to the handler of line 414
SxJupiter(result) ==
  /\ solx.pc = "dispatch"
  /\ solx.emergency \/ solx.position.dex = "jupiter"
  /\ solx' = [solx EXCEPT !.venues = Append(@, "jupiter"), !.first = result,
                          !.result = result,
                          !.pc = IF result = RaiseOutcome THEN "raised" ELSE "result"]
  /\ UNCHANGED solRest

\* lines 384-392: the swap through Raydium of an ordinary exit; only an
\* exception enters the handler of line 393
SxRaydium(result) ==
  /\ solx.pc = "dispatch"
  /\ ~(solx.emergency \/ solx.position.dex = "jupiter")
  /\ solx' = [solx EXCEPT !.venues = Append(@, "raydium"), !.first = result,
                          !.result = result,
                          !.pc = IF result = RaiseOutcome THEN "warn" ELSE "result"]
  /\ UNCHANGED solRest

\* lines 393-398: the warning of the handler, whose arguments are built with
\* shorten_address; its ValueError leaves through the handler of line 414
SxWarn ==
  /\ solx.pc = "warn"
  /\ solx' = [solx EXCEPT !.pc = IF shorten_address_raises(solx.position.token_address)
                                 THEN "raised" ELSE "aggregator"]
  /\ UNCHANGED solRest

\* lines 399-405: the swap through Jupiter after Raydium raised
SxAggregator(result) ==
  /\ solx.pc = "aggregator"
  /\ solx' = [solx EXCEPT !.venues = Append(@, "jupiter"), !.result = result,
                          !.pc = IF result = RaiseOutcome THEN "raised" ELSE "result"]
  /\ UNCHANGED solRest

\* lines 406-413: a confirmed result is priced with raydium.get_quote and
\* returned; any other result raises ValueError("Solana swap failed"), which
\* the handler of lines 415-423 logs and raises again
SxResult(quote) ==
  /\ solx.pc = "result"
  /\ solx' = IF swap_confirmed(solx.result) /\ quote # RaiseOutcome
             THEN [solx EXCEPT !.pc = "returned", !.out = [exit_price |-> quote]]
             ELSE [solx EXCEPT !.pc = "raised"]
  /\ UNCHANGED solRest

SolExitNext ==
  \/ \E position \in SolExitPositions, emergency \in BOOLEAN :
        SxCall(position, emergency)
  \/ \E result \in SwapResults : SxJupiter(result)
  \/ \E result \in SwapResults : SxRaydium(result)
  \/ SxWarn
  \/ \E result \in SwapResults : SxAggregator(result)
  \/ \E quote \in {None, Num(RInt(1)), RaiseOutcome} : SxResult(quote)

SpecSolExit == SolExitInit /\ [][SolExitNext]_vars

\* the call of _exit_solana has ended, by a return or an exception
SolExitEnded == solx.pc \in {"returned", "raised"}

\* C31: for a non-EVM position an ordinary exit dispatches first through the
\* position's recorded venue and, whenever that swap fails (it raises, or it
\* returns no confirmed result), dispatches through the aggregator; an
\* emergency exit dispatches through the aggregator only.
C31_RecordedVenueThenAggregator ==
  (SolExitEnded /\ solx.position.chain = "solana") =>
     /\ solx.emergency => solx.venues = <<"jupiter">>
     /\ ~solx.emergency =>
          /\ solx.venues[1] = solx.position.dex
          /\ (solx.position.dex # "jupiter" /\ ~swap_confirmed(solx.first))
                => solx.venues = <<solx.position.dex, "jupiter">>
          /\ swap_confirmed(solx.first) => Len(solx.venues) = 1

-----------------------------------------------------------------------------
(* Sniper._snipe_solana on its own: the swap, the Jupiter fallback and the
   retry loop of _retry_solana_snipe *)

\* bound: the calls of _snipe_solana in one behaviour
MaxSnipeCalls == 2

\* the lengths of chains['solana']['fallback_rpcs']
FallbackRpcCounts == {1, 2}

\* the (token_address, dex) _snipe_solana is called with: a Solana address on
\* either venue, and an address ChainHelpers() can shorten
SolSnipeInputs == [token : Tokens, dex : {"raydium", "jupiter"}]

\* f"snipe_solana_{dex}_{token_address}"
SolSnipeKey(c) == <<"snipe", "solana", c.dex, c.token>>

\* the exception of an RPC-level failure (solana.rpc.core)
SolanaRpcException == [raise |-> TRUE, rpc |-> TRUE]

\* what execute_swap of a venue client gives inside _snipe_solana: a
\* SolanaRpcException, another exception, None, or a result dict
SnipeSwapResults ==
  {SolanaRpcException, RaiseOutcome, None, [status |-> "failed"], [status |-> "confirmed"]}

\* an exception of either kind
IsRaise(result) == "raise" \in DOMAIN result

snipeRest == <<cacheVars, antiRugVars, sniperVars, ledgerVars, sizing, exits, trail, solx, io>>

SolSnipeInit ==
  /\ clock = 1
  /\ files = [k \in CacheKeys \cup {SolSnipeKey(c) : c \in SolSnipeInputs} |-> NoFile]
  /\ CacheIdle
  /\ AntiRugIdle
  /\ SniperIdle
  /\ LedgerIdle
  /\ SizingIdle
  /\ ExitIdle
  /\ TrailIdle
  /\ PathIdle

\* the call has ended with `out`
RsEnd(call, out) == [call EXCEPT !.pc = "ended", !.out = out]

\* the memo of a swap: cache.set(f"snipe_solana_{dex}_{token_address}", ...)
RsMemo(fs, call, value) ==
  JSONFileCache_set(fs, SolSnipeKey([token |-> call.token, dex |-> call.dex]), value, now)

\* the exception `result` leaves the try block of _snipe_solana (lines 289-296):
\* a SolanaRpcException is logged and goes on to _retry_solana_snipe, unless the
\* log line itself raises; any other exception leaves _snipe_solana
RsRaised(call, result) ==
  IF result = SolanaRpcException /\ ~shorten_address_raises(call.token)
  THEN [call EXCEPT !.pc = "retry", !.started = TRUE]
  ELSE RsEnd(call, "raised")

\* _snipe_solana(token_address, dex) is entered (lines 259-263)
RsCall(c, n) ==
  /\ rsn.pc \in {"idle", "ended"}
  /\ rsn.calls < MaxSnipeCalls
  /\ rsn' = [calls |-> rsn.calls + 1, pc |-> IF c.dex = "raydium" THEN "raydium" ELSE "jupiter",
             token |-> c.token, dex |-> c.dex, fallback_rpcs |-> n, started |-> FALSE,
             attempt |-> 0, endpoints |-> <<>>, swaps |-> <<>>, out |-> "none"]
  /\ UNCHANGED <<clock, files, snipeRest>>

\* lines 264-283: the Raydium swap; a falsy result goes on to Jupiter after a
\* warning built with shorten_address, any other result is memoized as a success
RsRaydium(result) ==
  /\ rsn.pc = "raydium"
  /\ LET call == [rsn EXCEPT !.swaps = Append(@, result)]
     IN  CASE IsRaise(result) ->
                /\ rsn' = RsRaised(call, result)
                /\ UNCHANGED files
           [] result = None ->
                /\ rsn' = IF shorten_address_raises(call.token)
                          THEN RsEnd(call, "raised")
                          ELSE [call EXCEPT !.pc = "jupiter"]
                /\ UNCHANGED files
           [] OTHER ->
                /\ files' = RsMemo(files, call, SnipeSuccess)
                /\ rsn' = RsEnd(call, "true")
  /\ UNCHANGED <<clock, snipeRest>>

\* lines 299-318: _execute_jupiter_fallback called from _snipe_solana
RsJupiter(result) ==
  /\ rsn.pc = "jupiter"
  /\ LET call == [rsn EXCEPT !.swaps = Append(@, result)]
     IN  CASE IsRaise(result) ->
                /\ rsn' = RsRaised(call, result)
                /\ UNCHANGED files
           [] result # None /\ result.status = "confirmed" ->
                /\ files' = RsMemo(files, call, SnipeSuccess)
                /\ rsn' = RsEnd(call, "true")
           [] OTHER ->
                /\ files' = RsMemo(files, call, SnipeFailed)
                /\ rsn' = RsEnd(call, "false")
  /\ UNCHANGED <<clock, snipeRest>>

\* `for attempt in range(retries)` and the `return False` after it (line 371)
NextAttempt(call) ==
  IF call.attempt + 1 >= retries THEN RsEnd([call EXCEPT !.attempt = @ + 1], "false")
  ELSE [call EXCEPT !.attempt = @ + 1]

\* lines 320-371: one turn of the loop of _retry_solana_snipe. The warning of
\* the turn and the error of its handler are built with shorten_address: when
\* it raises, the second ValueError leaves the handler and the loop. The client
\* of the turn is SolanaClient(fallback_rpcs[attempt % len(fallback_rpcs)]).
RsRetry(result) ==
  /\ rsn.pc = "retry"
  /\ rsn.attempt < retries
  /\ IF shorten_address_raises(rsn.token)
     THEN /\ rsn' = RsEnd(rsn, "raised")
          /\ UNCHANGED files
     ELSE LET call == [rsn EXCEPT !.swaps = Append(@, result),
                                  !.endpoints = Append(@, rsn.attempt % rsn.fallback_rpcs)]
          IN  CASE IsRaise(result) ->
                     /\ files' = RsMemo(files, call, SnipeFailed)
                     /\ rsn' = NextAttempt(call)
                [] result # None /\ result.status = "confirmed" ->
                     /\ files' = RsMemo(files, call, SnipeSuccess)
                     /\ rsn' = RsEnd(call, "true")
                [] OTHER ->
                     /\ files' = RsMemo(files, call, SnipeFailed)
                     /\ rsn' = IF call.dex = "raydium" THEN NextAttempt(call)
                               ELSE RsEnd(call, "false")
  /\ UNCHANGED <<clock, snipeRest>>

\* time.sleep(1.5 ** attempt) and the time the swaps take
RsTick == Tick /\ UNCHANGED <<files, rsn, snipeRest>>

SolSnipeNext ==
  \/ \E c \in SolSnipeInputs, n \in FallbackRpcCounts : RsCall(c, n)
  \/ \E result \in SnipeSwapResults : RsRaydium(result)
  \/ \E result \in SnipeSwapResults : RsJupiter(result)
  \/ \E result \in SnipeSwapResults : RsRetry(result)
  \/ RsTick

SpecSolSnipe == SolSnipeInit /\ [][SolSnipeNext]_vars

\* the call met a SolanaRpcException in a swap of _snipe_solana
RpcFailure == rsn.calls > 0 /\ \E i \in 1..Len(rsn.swaps) : rsn.swaps[i] = SolanaRpcException

\* the swaps made after the RPC failure: those of the retry loop
RetrySwaps == Len(rsn.endpoints)

\* C32: on the non-EVM entry path an RPC-level failure starts the retry loop; the
\* loop makes at most `retries` attempts, attempt i through fallback endpoint
\* i mod (number of endpoints); the call ends, with true at the first confirmed
\* swap of the loop and with false once the attempts are exhausted.
C32_RetryLoopBoundedAndCycling ==
  /\ rsn.calls > 0 =>
       /\ RetrySwaps <= retries
       /\ \A i \in 1..RetrySwaps : rsn.endpoints[i] = (i - 1) % rsn.fallback_rpcs
  /\ (RpcFailure /\ rsn.pc = "ended" /\ rsn.token \in SolanaTokens) =>
       /\ rsn.started
       /\ rsn.out \in {"true", "false"}
       /\ rsn.out = "true" <=>
            (RetrySwaps > 0 /\ rsn.swaps[Len(rsn.swaps)] = [status |-> "confirmed"])
       /\ rsn.out = "false" => RetrySwaps = retries

-----------------------------------------------------------------------------
(* AntiRugChecker: a run repeated within max_age *)

\* the thread is in a run that repeats its previous run, for the same token on
\* the same chain, no more than max_age after that run was entered
RepeatedRun(th) ==
  /\ ar[th].active
  /\ ar[th].prev # None
  /\ ar[th].prev.token = ar[th].token
  /\ ar[th].prev.chain = ar[th].chain
  /\ now - ar[th].prev.started <= MaxAge

\* the previous run memoized an outcome of the check
RecordedBefore(th, name) ==
  /\ name # "check_honeypot"
  /\ files[MemoKey(name, ar[th].token)].exists
  /\ files[MemoKey(name, ar[th].token)].mtime >= ar[th].prev.started

\* the cache held nothing for the token that is older than the previous run
FirstRunRecordedAll(th) == ar[th].prev.recorded_all

RunOnOtherChain(th) ==
  /\ ar[th].active
  /\ ar[th].prev # None
  /\ ar[th].prev.token = ar[th].token
  /\ ar[th].prev.chain # ar[th].chain

\* C34: the memo of a check is scoped to (check name, token, chain): an outcome
\* memoized while the token was validated on one chain is never the answer of
\* the check when the same token address is validated on another chain.
C34_MemoScopedByChain ==
  [][\A th \in Threads :
       (RunOnOtherChain(th) /\ ar'[th] # ar[th]) =>
          LET name == Checks[ar[th].idx]
          IN  (IsEnabled(settings, name) /\ RecordedBefore(th, name)) =>
                 (ar'[th].last.attempts > 0 \/ ar'[th].last.raised)]_vars

-----------------------------------------------------------------------------
(* Sniper.execute: the pending entry it finds *)

\* the thread is at the test of line 106 and finds an entry for its token
FindsPending(th) ==
  /\ sn[th].pc = "pending"
  /\ pending_txs[sn[th].cand.token].present
  /\ sn'[th] # sn[th]

\* C35: an entry of pending_txs that is 120 s old or older never blocks: execute
\* clears it, registers a fresh entry and goes on to the dispatch; an entry
\* younger than 120 s makes execute return false and stays in place.
C35_StaleEntryClearedFreshEntryRejects ==
  [][\A th \in SniperThreads :
       LET tok == sn[th].cand.token
       IN  /\ (FindsPending(th) /\ now - pending_txs[tok].ts < PendingWindow) =>
                 /\ sn'[th].pc = "returned"
                 /\ sn'[th].result = "false"
                 /\ pending_txs'[tok] = pending_txs[tok]
           /\ (FindsPending(th) /\ now - pending_txs[tok].ts >= PendingWindow) =>
                 sn'[th].pc = "clear_stale"
           /\ (sn[th].pc = "clear_stale" /\ sn'[th] # sn[th]) =>
                 /\ sn'[th].pc = "register"
                 /\ ~pending_txs'[tok].present
           /\ (sn[th].pc = "register" /\ sn'[th] # sn[th]) =>
                 /\ sn'[th].pc = "dispatch"
                 /\ pending_txs'[tok] = [present |-> TRUE, ts |-> now, owner |-> th]]_vars

-----------------------------------------------------------------------------
(* PortfolioManager: the lock taken again by the thread that holds it *)

\* the thread waits at a `with self.lock` nested in its own locked section:
\* threading.Lock is not reentrant, the wait has no end
BlockedOnOwnLock(th) == pm[th].pc = "blocked" /\ lock = th

\* C36: every call of open_position, close_position, update_positions and
\* liquidate_all ends and leaves the lock free: no call waits for ever, through
\* _save_portfolio, get_portfolio_value -> get_open_positions or close_position,
\* for the lock its own thread holds.
C36_NoCallBlocksOnOwnLock ==
  /\ \A th \in LedgerThreads : ~BlockedOnOwnLock(th)
  /\ \A th \in LedgerThreads : pm[th].pc \in {"idle", "returned", "raised"} => lock # th

-----------------------------------------------------------------------------
(* ChainCrawlr._run_token_scanner: execute, then open_position; the BUY of the
   dashboard goes through the same Sniper *)

\* the candidate the scanner and the dashboard are offered
ScanCandidate == CandidateOf("0xA")

\* the configuration of this specification: the EVM venue, the anti-rug stage
\* of _snipe_ethereum switched off (settings['trading']['anti_rug']['enabled'])
ScannerSettings ==
  [ venues           |-> {<<"ethereum", "uniswapv3">>},
    anti_rug_enabled |-> FALSE,
    enabled          |-> [n \in CheckNames |-> TRUE],
    honeypot_api_key |-> FALSE,
    explorer_api_key |-> FALSE,
    lp_token_address |-> FALSE ]

ScannerInit ==
  /\ clock = 1
  /\ settings = ScannerSettings
  /\ ar = [th \in Threads |-> NoRun]
  /\ SniperIdle
  /\ portfolio = [DefaultPortfolio EXCEPT
                    !.file = [exists |-> TRUE, positions |-> {}, history |-> <<>>]]
  /\ files = load_portfolio_files([k \in CacheKeys |-> NoFile], portfolio.file, now)
  /\ positions = {}
  /\ history = <<>>
  /\ lock = "free"
  /\ pm = [th \in Threads |-> NoPmCall]
  /\ CacheIdle
  /\ SizingIdle
  /\ ExitIdle
  /\ PathIdle
  /\ TrailIdle

\* main.py 217-219: the next token of a scan is handed to execute
ScExecute ==
  /\ pm["scanner"].pc = "idle"
  /\ SnCall("scanner", ScanCandidate)

\* `if self.sniper.execute(token):` (main.py 219)
ExecuteSucceeded(call) == call.result = "true"

\* main.py 219-229: execute returned True, the scanner logs the snipe and
\* calls open_position, arriving at its `with self.lock`
ScOpen ==
  /\ sn["scanner"].pc = "returned"
  /\ ExecuteSucceeded(sn["scanner"])
  /\ pm["scanner"].pc = "idle"
  /\ sn' = [sn EXCEPT !["scanner"] = [NoCall EXCEPT !.calls = sn["scanner"].calls]]
  /\ pm' = [pm EXCEPT !["scanner"] =
              [NoPmCall EXCEPT !.pc = "acquire", !.op = "open_position",
                               !.token = sn["scanner"].cand.token]]
  /\ UNCHANGED <<clock, files, pending_txs, blacklist, antiRugVars, positions, history,
                 lock, portfolio, cacheVars, sizing, exitVars>>

\* main.py 218-238: execute returned False, or raised and the handler of the
\* loop took the exception: the scanner goes on without opening a position
ScSkip ==
  /\ ~ExecuteSucceeded(sn["scanner"])
  /\ SnReturned("scanner")

\* the process is stopped and started again: a new Sniper and a new
\* PortfolioManager are constructed, the cache directory is the same
ScRestart ==
  /\ portfolio.restarts < MaxRestarts
  /\ lock # "free"
  /\ positions' = load_portfolio(files, portfolio.file, now).positions
  /\ history' = load_portfolio(files, portfolio.file, now).history
  /\ files' = load_portfolio_files(files, portfolio.file, now)
  /\ lock' = "free"
  /\ pm' = [th \in Threads |-> NoPmCall]
  /\ portfolio' = [portfolio EXCEPT !.restarts = @ + 1]
  /\ sn' = [th \in Threads |-> [NoCall EXCEPT !.calls = sn[th].calls]]
  /\ pending_txs' = [tok \in Tokens |-> NoPending]
  /\ blacklist' = {}
  /\ ar' = [th \in Threads |-> NoRun]
  /\ UNCHANGED <<clock, settings, cacheVars, sizing, exitVars>>

ScannerNext ==
  \/ ScExecute
  \/ SnCall("dashboard", ScanCandidate)
  \/ \E th \in SniperThreads : SnCacheGet(th)
  \/ \E th \in SniperThreads : SnBlacklist(th)
  \/ \E th \in SniperThreads : SnPending(th)
  \/ \E th \in SniperThreads : SnClearStale(th)
  \/ \E th \in SniperThreads : SnRegister(th)
  \/ \E th \in SniperThreads : SnDispatch(th, "ok")
  \/ \E th \in SniperThreads, b \in {"enough", "low", "raise"} : SnBalance(th, b)
  \/ \E th \in SniperThreads, g \in {"ok", "fail"} : SnGas(th, g)
  \/ \E th \in SniperThreads, sw \in {"confirmed", "failed", "raise"} :
        SnSwapUniswap(th, sw)
  \/ \E th \in SniperThreads : SnNotResult(th)
  \/ \E th \in SniperThreads : SnExcept(th)
  \/ \E th \in SniperThreads : SnFinallyCheck(th)
  \/ \E th \in SniperThreads : SnFinallyDel(th)
  \/ ScOpen
  \/ ScSkip
  \/ SnReturned("dashboard")
  \/ OpenBody("scanner")
  \/ PmReturned("scanner")
  \/ ScRestart
  \/ SnTick

SpecScanner == ScannerInit /\ [][ScannerNext]_vars

\* the scanner calls open_position in this step
ScannerOpens ==
  /\ pm["scanner"].pc = "idle"
  /\ pm'["scanner"].pc = "acquire"
  /\ pm'["scanner"].op = "open_position"

\* the execute call that has just returned dispatched a swap and saw it confirmed
DispatchedAndConfirmed(call) == call.dispatched /\ call.swap = "confirmed"

\* C37: the scanner loop opens a Position only after the Sniper.execute call
\* that immediately precedes the open dispatched a swap for the token and saw
\* it confirmed, so the positions opened for a token never outnumber its
\* confirmed buy dispatches, an execute answered from a memoized success
\* included.
C37_OpenOnlyAfterConfirmedDispatch ==
  [][ScannerOpens =>
       /\ pm'["scanner"].token = sn["scanner"].cand.token
       /\ DispatchedAndConfirmed(sn["scanner"])]_vars

-----------------------------------------------------------------------------
(* AutoExit.exit_history against the ledger's history *)

\* the entries of exit_history for a token, and the ClosedTrade entries the
\* ledger holds for it
ExitEntries(tok) == Cardinality({i \in DOMAIN exits.exit_history : exits.exit_history[i] = tok})
ClosedTrades(tok) == Cardinality({i \in DOMAIN history : history[i].token_address = tok})

\* C38: at every moment the exit_history of the monitoring AutoExit holds, for
\* each token, no more entries than the ledger's history holds ClosedTrade
\* entries for it.
C38_ExitHistoryWithinClosedTrades ==
  \A tok \in Tokens : ExitEntries(tok) <= ClosedTrades(tok)

-----------------------------------------------------------------------------
(* JSONFileCache with a get and a set in different threads: the statements of
   get and set one at a time, on one cache directory *)

MaxGets == 2
MaxSets == 2

\* the values set() is given: a result dict and a JSON true
RaceValues == { [status |-> "success"], [bool |-> TRUE] }

raceRest ==
  <<cacheVars, antiRugVars, sniperVars, ledgerVars, sizing, exits, trail, solx, rsn>>

\* done: key -> the value and the instant of the last set() that completed on
\* it, None while a set of the key is under way or none was made
CacheRaceInit ==
  /\ clock = 1
  /\ files = [k \in CacheKeys |-> NoFile]
  /\ CacheIdle
  /\ AntiRugIdle
  /\ SniperIdle
  /\ LedgerIdle
  /\ SizingIdle
  /\ ExitIdle
  /\ TrailIdle
  /\ SolExitIdle
  /\ SolSnipeIdle
  /\ io = [reader |-> NoGetCall, writer |-> NoSetCall,
           done |-> [k \in ProbeKeys |-> None]]

\* get, line 42: `if not cache_file.exists(): return None`. basis is what the
\* get may rely on: the completed set of the key, when no set is under way
GetExists(key) ==
  /\ io.reader.pc \in {"idle", "returned", "raised"}
  /\ io.reader.gets < MaxGets
  /\ LET call == [pc |-> "stat", gets |-> io.reader.gets + 1, key |-> key,
                  basis |-> io.done[key], result |-> None]
     IN  io' = [io EXCEPT !.reader =
                  IF files[key].exists THEN call ELSE [call EXCEPT !.pc = "returned"]]
  /\ UNCHANGED <<clock, files, raceRest>>

\* line 45: `time.time() - cache_file.stat().st_mtime > self.max_age`, then
\* unlink and None; stat() raises FileNotFoundError when the file has gone
GetStat ==
  /\ io.reader.pc = "stat"
  /\ LET key == io.reader.key
     IN  CASE ~files[key].exists ->
                /\ io' = [io EXCEPT !.reader.pc = "raised"]
                /\ UNCHANGED files
           [] files[key].exists /\ IsExpired(files[key], MaxAge, now) ->
                /\ io' = [io EXCEPT !.reader.pc = "unlink"]
                /\ UNCHANGED files
           [] OTHER ->
                /\ io' = [io EXCEPT !.reader.pc = "load"]
                /\ UNCHANGED files
  /\ UNCHANGED <<clock, raceRest>>

\* lines 49-52: open(cache_file, 'r') and json.load(f) raise IOError or
\* JSONDecodeError on a missing file and on a text that is no JSON document
load_fails(f) == ~f.exists \/ ~json_decodes(f.text)

\* lines 49-51: `return json.load(f)`, or into the handler
GetLoad ==
  /\ io.reader.pc = "load"
  /\ LET f == files[io.reader.key]
     IN  io' = [io EXCEPT !.reader =
                  IF load_fails(f) THEN [@ EXCEPT !.pc = "unlink"]
                  ELSE [@ EXCEPT !.pc = "returned",
                                 !.result = json_load(f.text)]]
  /\ UNCHANGED <<clock, files, raceRest>>

\* lines 46 and 53: cache_file.unlink(missing_ok=True), then `return None`. A
\* set that has the file open goes on writing to a file no path leads to.
GetUnlink ==
  /\ io.reader.pc = "unlink"
  /\ files' = [files EXCEPT ![io.reader.key] = NoFile]
  /\ io' = [io EXCEPT !.reader.pc = "returned",
                      !.writer = IF @.pc = "dump" /\ @.key = io.reader.key
                                 THEN [@ EXCEPT !.linked = FALSE] ELSE @]
  /\ UNCHANGED <<clock, raceRest>>

\* set, line 67: open(cache_file, 'w') creates the file or empties it
SetOpen(key, value) ==
  /\ io.writer.pc \in {"idle", "returned"}
  /\ io.writer.sets < MaxSets
  /\ files' = [files EXCEPT ![key] = [exists |-> TRUE, text |-> Truncated, mtime |-> now]]
  /\ io' = [io EXCEPT
              !.writer = [pc |-> "dump", sets |-> io.writer.sets + 1, key |-> key,
                          value |-> value, linked |-> TRUE],
              !.done[key] = None,
              !.reader = IF @.pc \in {"stat", "load", "unlink"} /\ @.key = key
                         THEN [@ EXCEPT !.basis = None] ELSE @]
  /\ UNCHANGED <<clock, raceRest>>

\* lines 68-69: json.dump(value, f, indent=2) and the close of the file, which
\* flushes the text to the file that was opened; `return True`
SetDump ==
  /\ io.writer.pc = "dump"
  /\ LET key == io.writer.key
     IN  /\ files' = IF io.writer.linked
                     THEN JSONFileCache_set(files, key, io.writer.value, now)
                     ELSE files
         /\ io' = [io EXCEPT !.writer.pc = "returned",
                             !.done[key] = [value |-> io.writer.value, at |-> now]]
  /\ UNCHANGED <<clock, raceRest>>

RaceTick == Tick /\ UNCHANGED <<files, io, raceRest>>

CacheRaceNext ==
  \/ \E key \in ProbeKeys : GetExists(key)
  \/ GetStat
  \/ GetLoad
  \/ GetUnlink
  \/ \E key \in ProbeKeys, value \in RaceValues : SetOpen(key, value)
  \/ SetDump
  \/ RaceTick

SpecCacheRace == CacheRaceInit /\ [][CacheRaceNext]_vars

\* a get that began after the last set of its key had completed, with no set of
\* the key since, has ended within the TTL of that set
GetAfterCompletedSet ==
  /\ io.reader.pc \in {"returned", "raised"}
  /\ io.reader.basis # None
  /\ now - io.reader.basis.at <= MaxAge

\* C39: a get that runs after a set of its key has completed, with no later
\* write of the key, and within the TTL, returns the value written, whatever
\* gets ran concurrently with that set: the key is not left absent and no
\* partly written text is returned.
C39_GetAfterSetReturnsValueWritten ==
  GetAfterCompletedSet =>
    /\ io.reader.pc = "returned"
    /\ io.reader.result = io.reader.basis.value

-----------------------------------------------------------------------------
(* The monitoring loop left to run for ever, with a venue that always quotes
   and swaps and anti-rug checks switched off: do due exits happen? *)

\* the price the venue quotes from now on: half the entry price of the
\* positions of the file, which is below the global stop loss
LiveQuote == Num(RInt(1))
LiveQuotes == [tok \in Tokens |-> LiveQuote]

\* failures of earlier exit and close attempts, memoized at the first instant
EarlierFailures(fs, memos) ==
  [k \in DOMAIN fs |->
     IF k \in memos THEN [exists |-> TRUE, text |-> json_dump([status |-> "failed"]),
                          mtime |-> Instants[1]]
     ELSE fs[k]]

FailureKeys ==
  {ExitKey(VenueOf(tok).chain, tok) : tok \in Tokens}
  \cup {ClosePositionKey(VenueOf(tok).chain, tok) : tok \in Tokens}

ExitLiveInit ==
  /\ clock = 1
  /\ settings = ScannerSettings
  /\ ar = [th \in Threads |-> NoRun]
  /\ portfolio \in {p \in LedgerPortfolios :
                       ~p.trailing_stop_enabled /\ p.file.history = <<>>}
  /\ \E memos \in SUBSET FailureKeys :
       files = EarlierFailures(
                 load_portfolio_files([k \in CacheKeys |-> NoFile], portfolio.file, now),
                 memos)
  /\ positions = load_portfolio([k \in CacheKeys |-> NoFile], portfolio.file, now).positions
  /\ history = <<>>
  /\ lock = "free"
  /\ pm = [th \in Threads |-> NoPmCall]
  /\ \E cfg \in ExitConfigs :
       exits = [started |-> TRUE, cfg |-> cfg, active_positions |-> {},
                exit_history |-> <<>>, todo |-> <<>>, polls |-> 0, sells |-> 0,
                seen |-> [tok \in Tokens |-> None], attempted |-> {},
                call |-> [th \in ExitThreads |-> NoExitCall]]
  /\ CacheIdle
  /\ SniperIdle
  /\ SizingIdle
  /\ TrailIdle
  /\ PathIdle

\* monitor_positions, lines 58-61, at any later turn of `while True`: the
\* count of the polls stays at MaxPolls, and the sleeps of the turns before
\* have taken the time to the last instant
AxPollAgain(order, qf) ==
  /\ ExitCall("exit").pc = "idle"
  /\ exits.polls = MaxPolls
  /\ \A c \in ExitInstants : c <= clock
  /\ lock = "free"
  /\ LET r == get_open_positions(order, positions, files, qf, <<>>, now)
     IN  /\ files' = r.files
         /\ exits' = [exits EXCEPT
                        !.todo = r.results,
                        !.seen = [tok \in Tokens |-> PolledPrice(r.files, tok)],
                        !.attempted = {},
                        !.call["exit"] = [NoExitCall EXCEPT
                                            !.pc = IF r.raised THEN "idle" ELSE "loop"]]
  /\ UNCHANGED <<clock, settings, ar, positions, history, lock, exitRest>>

\* the steps of the thread of _run_auto_exit, close_position apart
MonitorStep ==
  \/ \E order \in Orders(positions) : AxPoll(order, LiveQuotes)
  \/ \E order \in Orders(positions) : AxPollAgain(order, LiveQuotes)
  \/ AxEnter
  \/ AxLoopEnd
  \/ AxPrice(LiveQuote)
  \/ AxRug("ok")
  \/ AxStopLoss
  \/ AxExitCache("exit")
  \/ AxDispatch("exit", [exit_price |-> LiveQuote])
  \/ AxFinally

ExitLiveNext == MonitorStep \/ AxClose("exit", LiveQuote) \/ AxTick

\* the thread is at close_position and the ledger lock is free: AxClose can be
\* taken, and taking it leaves this place
CloseEnabled == ExitCall("exit").pc = "close" /\ lock = "free"

\* the thread of _run_auto_exit keeps being scheduled, and the time of its
\* sleeps passes. The last conjunct is WF_vars(AxClose("exit", LiveQuote)),
\* written with the enabling condition of the step.
SpecExitLive ==
  /\ ExitLiveInit
  /\ [][ExitLiveNext]_vars
  /\ WF_vars(MonitorStep)
  /\ WF_vars(AxTick)
  /\ []<>(~CloseEnabled)

\* the exit trigger of the token's position holds at a poll made now: the
\* quoted price is at or below the global stop loss
ExitDue(tok) ==
  HasPosition(positions, tok) =>
    stop_loss_hit(profit_pct(LiveQuote.num, PositionOf(positions, tok).entry_price),
                  exits.cfg.global_stop_loss)

\* C40: a position whose exit trigger holds at every poll from some point on,
\* with swap, quote and close succeeding, is eventually removed from the open
\* positions, memoized earlier failures notwithstanding.
C40_DueExitEventuallyHappens ==
  \A tok \in Tokens : <>[]ExitDue(tok) => <>(~HasPosition(positions, tok))

====
